---------------------------- MODULE Spec2Model ----------------------------
(***************************************************************************)
(* Living Legacy project scoping: the interview question selector          *)
(* (question_bank.generate_questions), the tables it reads, and the        *)
(* callers that hold and edit what it returns (app.py).                    *)
(*                                                                         *)
(* Python values are modelled as follows.                                  *)
(*   dict / OrderedDict : a sequence of <<key, value>> pairs in insertion  *)
(*                        order (Python dicts keep insertion order)        *)
(*   str                : [type |-> "str",  val |-> "..."] where the       *)
(*                        run-time type matters (scoping answers)          *)
(*   list               : [type |-> "list", val |-> << ... >>] likewise    *)
(*   list object        : a reference [table, key, items]; table = ""      *)
(*                        is a list of its own holding items, any other    *)
(*                        table names the module-level table whose entry   *)
(*                        `key` IS this list (same object, shared)         *)
(***************************************************************************)
EXTENDS Naturals, Sequences, FiniteSets, TLC

(* Master question pool: category name -> canonical question list, in
   declaration order.  A dict is an ordered sequence of <<key, value>> pairs.
   The em dash of the source strings is written "--". *)
QUESTIONS_BY_CATEGORY ==
  <<
    << "Childhood & Growing Up",
      <<
         "What is your earliest memory?",
         "Where did you grow up, and what was your neighborhood like?",
         "Describe the home you grew up in -- what did it look like, smell like, sound like?",
         "Who were the most important people in your childhood?",
         "What were your favorite games, toys, or ways to spend time as a kid?",
         "What was school like for you? Did you have a favorite teacher?",
         "What got you in trouble as a kid?",
         "What was dinnertime like in your family?",
         "What holidays or traditions did your family celebrate, and how?",
         "Was there a moment in your childhood that changed the direction of your life?",
         "What was the best summer you remember as a kid?",
         "What did you want to be when you grew up?",
         "What were your parents like when you were young?",
         "What music, TV shows, or movies do you remember from growing up?",
         "What was the hardest thing about being a kid in that era?" >> >>,
    << "Family & Relationships",
      <<
         "How did you meet your spouse or life partner?",
         "What was your wedding day like?",
         "What's the secret to a lasting relationship, in your experience?",
         "What was it like becoming a parent for the first time?",
         "What's a favorite memory with each of your children?",
         "How would you describe your parenting style?",
         "What traditions have you created with your own family?",
         "What do you admire most about your parents?",
         "Tell me about a family challenge you overcame together.",
         "What do you most want your children or grandchildren to know about you?",
         "Is there a family recipe, song, or saying that's been passed down?",
         "What has being a grandparent meant to you?",
         "Describe a perfect ordinary day with your family.",
         "What's the funniest thing that ever happened in your family?",
         "Who in your extended family had the biggest impact on you?" >> >>,
    << "Career & Professional Life",
      <<
         "What was your very first job?",
         "How did you end up in the career or industry you spent your life in?",
         "Who was the most influential mentor in your professional life?",
         "What accomplishment are you most proud of professionally?",
         "Tell me about a time you failed at work and what you learned from it.",
         "How did your career change you as a person?",
         "What was the biggest risk you took professionally?",
         "What was the hardest decision you ever made at work?",
         "What leadership lesson took you the longest to learn?",
         "If you could give one piece of career advice to a young person, what would it be?",
         "How did you handle the balance between work and family?",
         "What do you think your colleagues would say about you?",
         "What industry changes did you witness during your career?",
         "Describe the moment you knew it was time to retire or move on.",
         "What legacy did you leave at the place you worked the longest?" >> >>,
    << "Values & Life Lessons",
      <<
         "What values were you raised with that you still hold today?",
         "What's the most important lesson life has taught you?",
         "What do you know now that you wish you'd known at 20?",
         "What does 'success' mean to you -- has that definition changed?",
         "What advice would you give about handling money?",
         "How do you define a good life?",
         "What's the best advice anyone ever gave you?",
         "What's a mistake you made that taught you something valuable?",
         "How do you handle disagreements or conflict?",
         "What does courage mean to you? When have you had to be courageous?",
         "How do you decide what's right when the answer isn't clear?",
         "What's worth fighting for?",
         "If you could write a letter to your younger self, what would it say?",
         "What keeps you going when life gets hard?",
         "What do you hope people learn from your life?" >> >>,
    << "Faith & Spirituality",
      <<
         "How would you describe your relationship with faith or spirituality?",
         "Were you raised in a religious tradition? How did that shape you?",
         "Was there a defining moment in your spiritual life?",
         "How has your faith helped you through difficult times?",
         "Have you ever had doubts? How did you work through them?",
         "What spiritual practices are most meaningful to you?",
         "Is there a scripture, prayer, or saying that guides your life?",
         "Who has been a spiritual mentor or model for you?",
         "How has your faith changed or deepened over the years?",
         "What do you hope to pass down about your faith?",
         "Describe a moment you felt truly at peace.",
         "How does your faith community matter to you?" >> >>,
    << "Military & Service",
      <<
         "Why did you join the military / enter service?",
         "What was basic training like?",
         "Where were you stationed, and what was life like there?",
         "Tell me about the people you served with -- who stands out?",
         "What was your most meaningful experience during your service?",
         "How did military life affect your family?",
         "Was there a moment that tested everything you had?",
         "What did you learn about leadership in the military?",
         "How did you transition back to civilian life?",
         "Is there a fallen comrade you'd like to honor or remember?",
         "What do civilians most misunderstand about military life?",
         "How did your service shape the person you became?",
         "What's the funniest thing that happened during your service?",
         "If you could talk to a young person considering enlisting, what would you say?" >> >>,
    << "Adventures & Experiences",
      <<
         "What's the greatest adventure you've ever had?",
         "Where is the most memorable place you've ever traveled?",
         "Tell me about a time you stepped completely outside your comfort zone.",
         "What's the most spontaneous thing you've ever done?",
         "Is there an experience that fundamentally changed how you see the world?",
         "What's a hobby or passion that has brought you the most joy?",
         "Describe a perfect day doing something you love.",
         "What's a risk you took that paid off -- or didn't?",
         "Tell me about a time you were truly awestruck.",
         "What's on your bucket list that you still hope to do?" >> >>,
    << "Health & Resilience",
      <<
         "Have you faced a serious health challenge? How did you cope?",
         "What kept you strong during the hardest period of your life?",
         "How did your family support you through a difficult time?",
         "What did you learn about yourself through adversity?",
         "Has a loss or hardship changed your perspective on life?",
         "What advice would you give someone going through something similar?",
         "How do you take care of your mental and emotional health?",
         "Who or what gave you hope when things looked dark?" >> >>,
    << "Cultural Heritage & Traditions",
      <<
         "What is your cultural or ethnic heritage?",
         "What traditions from your culture are most important to you?",
         "Are there family customs you'd like to see continue?",
         "What language(s) were spoken in your home growing up?",
         "Tell me about a food or recipe that connects you to your heritage.",
         "What cultural values were instilled in you?",
         "How has your heritage shaped your identity?",
         "Is there a family history or origin story that's been passed down?" >> >>,
    << "Reflection & Legacy",
      <<
         "When you look back on your life, what are you most grateful for?",
         "What are you most proud of?",
         "Is there anything you wish you'd done differently?",
         "What do you want people to remember about you?",
         "If you could live one day over again, which would it be and why?",
         "What brings you the most joy right now?",
         "What does the word 'legacy' mean to you?",
         "What message would you like to leave for future generations?",
         "How would you like to be remembered by those who knew you best?",
         "If you had one more thing to say to the people you love, what would it be?" >> >> >>

(* Legacy type -> default categories to include. *)
LEGACY_TYPE_CATEGORIES ==
  <<
    << "Full Life Story",
      << "Childhood & Growing Up", "Family & Relationships", "Career & Professional Life", "Values & Life Lessons", "Adventures & Experiences", "Reflection & Legacy" >> >>,
    << "Words of Wisdom",
      << "Values & Life Lessons", "Reflection & Legacy" >> >>,
    << "Growing Up",
      << "Childhood & Growing Up", "Cultural Heritage & Traditions" >> >>,
    << "Professional Life: My Career",
      << "Career & Professional Life", "Values & Life Lessons" >> >>,
    << "Love & Family",
      << "Family & Relationships", "Reflection & Legacy" >> >>,
    << "Military & Service",
      << "Military & Service", "Values & Life Lessons", "Reflection & Legacy" >> >>,
    << "Faith & Spiritual Journey",
      << "Faith & Spirituality", "Values & Life Lessons", "Reflection & Legacy" >> >>,
    << "A Specific Chapter",
      << "Adventures & Experiences", "Health & Resilience", "Reflection & Legacy" >> >> >>

(* Scoping theme selection -> extra category to pull in. *)
THEME_TO_CATEGORY ==
  <<
    << "Family & Relationships", "Family & Relationships" >>,
    << "Career & Professional Life", "Career & Professional Life" >>,
    << "Education & Learning", "Childhood & Growing Up" >>,
    << "Travel & Adventures", "Adventures & Experiences" >>,
    << "Faith & Spirituality", "Faith & Spirituality" >>,
    << "Health & Overcoming Challenges", "Health & Resilience" >>,
    << "Hobbies & Passions", "Adventures & Experiences" >>,
    << "Community & Volunteering", "Cultural Heritage & Traditions" >>,
    << "Military Service", "Military & Service" >>,
    << "Cultural Heritage & Traditions", "Cultural Heritage & Traditions" >>,
    << "Life lessons & general advice", "Values & Life Lessons" >>,
    << "Relationship & marriage wisdom", "Family & Relationships" >>,
    << "Parenting insights", "Family & Relationships" >>,
    << "Career & professional guidance", "Career & Professional Life" >>,
    << "Financial lessons learned", "Values & Life Lessons" >>,
    << "Health & wellness advice", "Health & Resilience" >>,
    << "Faith & spiritual guidance", "Faith & Spirituality" >>,
    << "Dealing with adversity & resilience", "Health & Resilience" >>,
    << "Happiness & finding purpose", "Values & Life Lessons" >>,
    << "Mistakes I learned from", "Values & Life Lessons" >>,
    << "Family life & home", "Family & Relationships" >>,
    << "Neighborhood & community", "Cultural Heritage & Traditions" >>,
    << "School days & friendships", "Childhood & Growing Up" >>,
    << "Cultural traditions & holidays", "Cultural Heritage & Traditions" >>,
    << "Pivotal moments & turning points", "Values & Life Lessons" >>,
    << "Games, toys & entertainment of the era", "Childhood & Growing Up" >>,
    << "Food, meals & family recipes", "Cultural Heritage & Traditions" >>,
    << "Summer vacations & adventures", "Adventures & Experiences" >>,
    << "Challenges & how I overcame them", "Health & Resilience" >>,
    << "The historical era I grew up in", "Cultural Heritage & Traditions" >>,
    << "How I got started & early career", "Career & Professional Life" >>,
    << "Mentors & people who shaped my path", "Career & Professional Life" >>,
    << "Major accomplishments & proud moments", "Career & Professional Life" >>,
    << "Failures, setbacks & what I learned", "Health & Resilience" >>,
    << "Leadership philosophy & management style", "Career & Professional Life" >>,
    << "Industry changes I witnessed or drove", "Career & Professional Life" >>,
    << "Work-life balance & sacrifices", "Family & Relationships" >>,
    << "Advice for the next generation in my field", "Values & Life Lessons" >>,
    << "The legacy I left at my workplace", "Reflection & Legacy" >>,
    << "Transition to retirement", "Reflection & Legacy" >>,
    << "My love story / marriage", "Family & Relationships" >>,
    << "Being a parent", "Family & Relationships" >>,
    << "Being a grandparent", "Family & Relationships" >>,
    << "My parents & the family I came from", "Family & Relationships" >>,
    << "Siblings & extended family", "Family & Relationships" >>,
    << "Lifelong friendships", "Family & Relationships" >>,
    << "Chosen family & community bonds", "Cultural Heritage & Traditions" >>,
    << "How we met / how it all began", "Family & Relationships" >>,
    << "Traditions & rituals we built together", "Cultural Heritage & Traditions" >>,
    << "Challenges we faced & overcame", "Health & Resilience" >>,
    << "Everyday moments that defined us", "Family & Relationships" >>,
    << "Lessons I learned about love & commitment", "Values & Life Lessons" >>,
    << "Funny stories & inside jokes", "Family & Relationships" >>,
    << "What I want them to know", "Reflection & Legacy" >>,
    << "Basic training & early days", "Military & Service" >>,
    << "Deployments & duty stations", "Military & Service" >>,
    << "Combat experiences", "Military & Service" >>,
    << "Brotherhood & camaraderie", "Military & Service" >>,
    << "Leadership & lessons learned", "Values & Life Lessons" >>,
    << "Impact on family & home life", "Family & Relationships" >>,
    << "Transition to civilian life", "Military & Service" >>,
    << "How service shaped who I am", "Reflection & Legacy" >>,
    << "Honoring fallen comrades", "Military & Service" >>,
    << "Funny stories & lighter moments", "Military & Service" >>,
    << "Foundational beliefs & values", "Faith & Spirituality" >>,
    << "Key moments of spiritual growth", "Faith & Spirituality" >>,
    << "How faith carried me through hard times", "Faith & Spirituality" >>,
    << "Community & fellowship", "Cultural Heritage & Traditions" >>,
    << "Doubts, questions & honest wrestling", "Faith & Spirituality" >>,
    << "Prayers that were answered", "Faith & Spirituality" >>,
    << "Spiritual mentors & teachers", "Faith & Spirituality" >>,
    << "Faith traditions I want to pass down", "Faith & Spirituality" >>,
    << "How my faith evolved over time", "Faith & Spirituality" >>,
    << "It changed who I am", "Reflection & Legacy" >>,
    << "It's a story my family should know", "Family & Relationships" >>,
    << "It involved incredible people", "Family & Relationships" >>,
    << "It was an adventure or unique experience", "Adventures & Experiences" >>,
    << "I overcame something difficult", "Health & Resilience" >>,
    << "It shaped my values or beliefs", "Values & Life Lessons" >>,
    << "It's a piece of history", "Cultural Heritage & Traditions" >>,
    << "It's simply a great story", "Adventures & Experiences" >> >>

(* Catalog of legacy types: name -> follow-up scoping questions. *)
LEGACY_TYPES ==
  <<
    << "Full Life Story",
      [ follow_up_questions |->
          <<
           [ key |-> "time_depth",
             question |-> "How far back would you like to go?",
             type |-> "radio",
             options |-> <<
                 "As far back as I can remember",
                 "Starting from my teenage years",
                 "Starting from adulthood" >> ],
           [ key |-> "themes",
             question |-> "Which life themes are most important to include? (Select all that apply)",
             type |-> "multiselect",
             options |-> <<
                 "Family & Relationships",
                 "Career & Professional Life",
                 "Education & Learning",
                 "Travel & Adventures",
                 "Faith & Spirituality",
                 "Health & Overcoming Challenges",
                 "Hobbies & Passions",
                 "Community & Volunteering",
                 "Military Service",
                 "Cultural Heritage & Traditions" >> ],
           [ key |-> "tone",
             question |-> "What tone or feel should the story have?",
             type |-> "radio",
             options |-> <<
                 "Warm and conversational -- like sitting on the porch together",
                 "Reflective and thoughtful -- lessons learned along the way",
                 "Celebratory and uplifting -- highlighting the best moments",
                 "Honest and raw -- the full truth, good and hard" >> ],
           [ key |-> "estimated_length",
             question |-> "How extensive should the final piece be?",
             type |-> "radio",
             options |-> <<
                 "A concise overview (10-20 pages / 30-60 min of audio)",
                 "A detailed narrative (50-100 pages / 2-4 hours of audio)",
                 "A comprehensive memoir (100+ pages / 5+ hours of audio)" >> ] >> ] >>,
    << "Words of Wisdom",
      [ follow_up_questions |->
          <<
           [ key |-> "wisdom_topics",
             question |-> "What areas of wisdom would you like to share? (Select all that apply)",
             type |-> "multiselect",
             options |-> <<
                 "Life lessons & general advice",
                 "Relationship & marriage wisdom",
                 "Parenting insights",
                 "Career & professional guidance",
                 "Financial lessons learned",
                 "Health & wellness advice",
                 "Faith & spiritual guidance",
                 "Dealing with adversity & resilience",
                 "Happiness & finding purpose",
                 "Mistakes I learned from" >> ],
           [ key |-> "format_pref",
             question |-> "How would you like the wisdom presented?",
             type |-> "radio",
             options |-> <<
                 "Short, memorable sayings and principles",
                 "Stories that illustrate each lesson",
                 "Letters addressed to specific people",
                 "A mix of stories, advice, and reflections" >> ],
           [ key |-> "tone",
             question |-> "What tone feels right?",
             type |-> "radio",
             options |-> <<
                 "Gentle and encouraging",
                 "Direct and no-nonsense",
                 "Humorous and lighthearted",
                 "Deeply personal and heartfelt" >> ] >> ] >>,
    << "Growing Up",
      [ follow_up_questions |->
          <<
           [ key |-> "era_focus",
             question |-> "Which period would you like to focus on most?",
             type |-> "radio",
             options |-> <<
                 "Early childhood (birth to age 10)",
                 "Pre-teen and teenage years (10-18)",
                 "The full span of growing up (birth through leaving home)" >> ],
           [ key |-> "growing_up_themes",
             question |-> "What aspects of growing up are most important to capture? (Select all that apply)",
             type |-> "multiselect",
             options |-> <<
                 "Family life & home",
                 "Neighborhood & community",
                 "School days & friendships",
                 "Cultural traditions & holidays",
                 "Pivotal moments & turning points",
                 "Games, toys & entertainment of the era",
                 "Food, meals & family recipes",
                 "Summer vacations & adventures",
                 "Challenges & how I overcame them",
                 "The historical era I grew up in" >> ],
           [ key |-> "setting_detail",
             question |-> "How important is it to paint a picture of the time and place?",
             type |-> "radio",
             options |-> <<
                 "Very important -- I want readers to feel like they're there",
                 "Somewhat -- mention key details but focus on the stories",
                 "Not very -- the stories and people matter most" >> ] >> ] >>,
    << "Professional Life: My Career",
      [ follow_up_questions |->
          <<
           [ key |-> "career_scope",
             question |-> "What part of your career would you like to focus on?",
             type |-> "radio",
             options |-> <<
                 "My entire career arc, start to finish",
                 "A specific role or company that defined me",
                 "A particular industry or field I worked in",
                 "My entrepreneurial journey / business I built" >> ],
           [ key |-> "career_themes",
             question |-> "Which professional themes matter most? (Select all that apply)",
             type |-> "multiselect",
             options |-> <<
                 "How I got started & early career",
                 "Mentors & people who shaped my path",
                 "Major accomplishments & proud moments",
                 "Failures, setbacks & what I learned",
                 "Leadership philosophy & management style",
                 "Industry changes I witnessed or drove",
                 "Work-life balance & sacrifices",
                 "Advice for the next generation in my field",
                 "The legacy I left at my workplace",
                 "Transition to retirement" >> ],
           [ key |-> "detail_level",
             question |-> "How technical or detailed should the career story be?",
             type |-> "radio",
             options |-> <<
                 "Keep it accessible -- anyone should be able to enjoy it",
                 "Some industry detail -- for people familiar with my field",
                 "In-depth -- a record for professionals and colleagues" >> ] >> ] >>,
    << "Love & Family",
      [ follow_up_questions |->
          <<
           [ key |-> "relationship_focus",
             question |-> "Which relationships would you like to focus on? (Select all that apply)",
             type |-> "multiselect",
             options |-> <<
                 "My love story / marriage",
                 "Being a parent",
                 "Being a grandparent",
                 "My parents & the family I came from",
                 "Siblings & extended family",
                 "Lifelong friendships",
                 "Chosen family & community bonds" >> ],
           [ key |-> "family_themes",
             question |-> "What aspects of these relationships matter most? (Select all that apply)",
             type |-> "multiselect",
             options |-> <<
                 "How we met / how it all began",
                 "Traditions & rituals we built together",
                 "Challenges we faced & overcame",
                 "Everyday moments that defined us",
                 "Lessons I learned about love & commitment",
                 "Funny stories & inside jokes",
                 "What I want them to know" >> ],
           [ key |-> "tone",
             question |-> "What tone feels right for these stories?",
             type |-> "radio",
             options |-> <<
                 "Romantic and sentimental",
                 "Warm and down-to-earth",
                 "Funny and affectionate",
                 "Deeply honest -- the real story" >> ] >> ] >>,
    << "Military & Service",
      [ follow_up_questions |->
          <<
           [ key |-> "service_scope",
             question |-> "What branch and era of service?",
             type |-> "text",
             options |-> <<>> ],
           [ key |-> "service_themes",
             question |-> "Which aspects of your service are most important to capture? (Select all that apply)",
             type |-> "multiselect",
             options |-> <<
                 "Basic training & early days",
                 "Deployments & duty stations",
                 "Combat experiences",
                 "Brotherhood & camaraderie",
                 "Leadership & lessons learned",
                 "Impact on family & home life",
                 "Transition to civilian life",
                 "How service shaped who I am",
                 "Honoring fallen comrades",
                 "Funny stories & lighter moments" >> ],
           [ key |-> "sensitivity",
             question |-> "Are there aspects of your service you'd prefer to keep private?",
             type |-> "radio",
             options |-> <<
                 "I'm an open book -- capture it all",
                 "Some topics are off-limits -- I'll let you know as we go",
                 "I'd like to focus on the positive and skip the difficult parts" >> ] >> ] >>,
    << "Faith & Spiritual Journey",
      [ follow_up_questions |->
          <<
           [ key |-> "faith_scope",
             question |-> "What best describes your spiritual journey?",
             type |-> "radio",
             options |-> <<
                 "Lifelong faith in one tradition",
                 "A journey across different beliefs or denominations",
                 "Coming to faith later in life",
                 "A spiritual but not religious path",
                 "A complex relationship with faith" >> ],
           [ key |-> "faith_themes",
             question |-> "What aspects of your faith journey matter most? (Select all that apply)",
             type |-> "multiselect",
             options |-> <<
                 "Foundational beliefs & values",
                 "Key moments of spiritual growth",
                 "How faith carried me through hard times",
                 "Community & fellowship",
                 "Doubts, questions & honest wrestling",
                 "Prayers that were answered",
                 "Spiritual mentors & teachers",
                 "Faith traditions I want to pass down",
                 "How my faith evolved over time" >> ] >> ] >>,
    << "A Specific Chapter",
      [ follow_up_questions |->
          <<
           [ key |-> "chapter_description",
             question |-> "Briefly describe the chapter or experience you want to capture:",
             type |-> "text",
             options |-> <<>> ],
           [ key |-> "chapter_timeframe",
             question |-> "Roughly how long did this chapter span?",
             type |-> "radio",
             options |-> <<
                 "A single event or moment",
                 "Days to weeks",
                 "Months",
                 "A year or two",
                 "Several years" >> ],
           [ key |-> "chapter_themes",
             question |-> "What makes this chapter worth preserving? (Select all that apply)",
             type |-> "multiselect",
             options |-> <<
                 "It changed who I am",
                 "It's a story my family should know",
                 "It involved incredible people",
                 "It was an adventure or unique experience",
                 "I overcame something difficult",
                 "It shaped my values or beliefs",
                 "It's a piece of history",
                 "It's simply a great story" >> ] >> ] >> >>

-----------------------------------------------------------------------------
(* Bounds of the model. *)

\* Most theme labels selected over all multi-choice answers of one scope.
MaxThemes == 2

\* Most options of a single-choice question a scope draws its answer from.
MaxRadio == 1

\* Most invocations of generate_questions by one caller.
MaxCalls == 3

\* Most edits a caller applies to the lists it was given.
MaxEdits == 1

-----------------------------------------------------------------------------
(* dict operations *)

Min(a, b) == IF a < b THEN a ELSE b

Range(s) == { s[i] : i \in 1..Len(s) }

Keys(d) == [ i \in 1..Len(d) |-> d[i][1] ]

HasKey(d, k) == \E i \in 1..Len(d) : d[i][1] = k

\* d.get(k, default)
DictGet(d, k, default) ==
  LET at == { i \in 1..Len(d) : d[i][1] = k }
  IN  IF at = {} THEN default ELSE d[CHOOSE i \in at : TRUE][2]

\* d[k] = v : an existing key keeps its position, a new key goes last
DictSet(d, k, v) ==
  IF HasKey(d, k)
  THEN [ i \in 1..Len(d) |-> IF d[i][1] = k THEN <<k, v>> ELSE d[i] ]
  ELSE Append(d, <<k, v>>)

\* Run-time values of the two answer types generate_questions tells apart.
Str(s) == [ type |-> "str", val |-> s ]

List(l) == [ type |-> "list", val |-> l ]

-----------------------------------------------------------------------------
(* The inputs: project scopes as build_project_data assembles them. *)

\* A label no table knows.
UnknownLabel == "Pets & Animals"

\* What a user may type into a free-text scoping question.
FreeTexts == { "", "US Army, 1968-1972", "Military Service" }

Archetypes == Range(Keys(LEGACY_TYPES))

FollowUpQuestions(lt) == DictGet(LEGACY_TYPES, lt, [follow_up_questions |-> <<>>]).follow_up_questions

\* All sequences over S of length at most n.
SeqsUpTo(S, n) == UNION { [1..k -> S] : k \in 0..n }

\* The number of theme labels an answer holds.
Themes(a) == IF a.type = "list" THEN Len(a.val) ELSE 0

\* The values the step-2 widget of question q can yield (app.py 288-308);
\* a multiselect is also given labels outside its options.
AnswerChoices(q, n) ==
  CASE q.type = "radio" ->
         { Str(q.options[i]) : i \in 1..Min(MaxRadio, Len(q.options)) }
    [] q.type = "multiselect" ->
         { List(s) : s \in SeqsUpTo(Range(q.options) \cup {UnknownLabel}, n) }
    [] q.type = "text" -> { Str(t) : t \in FreeTexts }

\* The answers the i-th question of qs can be given with n labels to spend
\* (one stand-in where qs has no i-th question).
Choices(qs, i, n) == IF i > Len(qs) THEN { Str("") } ELSE AnswerChoices(qs[i], n)

\* scoping_answers as step 2 stores it: the answer of each question under
\* the question's key.
ScopingAnswers(qs, answers) == [ i \in 1..Len(qs) |-> << qs[i].key, answers[i] >> ]

\* A mutant of BuildScoping: one entry for each stored answer, in the order
\* the answers are stored.
BuildScopingOfStored(qs, scoping_answers) ==
  LET text(k) == (CHOOSE q \in Range(qs) : q.key = k).question
      known == SelectSeq(scoping_answers, LAMBDA a : \E q \in Range(qs) : q.key = a[1])
  IN  [ n \in 1..Len(known) |-> << text(known[n][1]), known[n][2] >> ]

\* build_project_data: scoping_details keyed by the question text, each
\* question's stored answer or "" (the fields generate_questions never reads
\* are left out).  The loop `scoping[q["question"]] = answer` leaves each
\* question text at the position of its first assignment, with the value of
\* its last.
BuildScoping(qs, scoping_answers) ==
  LET first == { i \in 1..Len(qs) : \A j \in 1..(i - 1) : qs[j].question # qs[i].question }
      last(i) == CHOOSE j \in i..Len(qs) :
                   /\ qs[j].question = qs[i].question
                   /\ \A k \in (j + 1)..Len(qs) : qs[k].question # qs[i].question
      nth(n) == CHOOSE i \in first : Cardinality({ j \in first : j < i }) = n - 1
  IN  [ n \in 1..Cardinality(first) |->
          << qs[nth(n)].question, DictGet(scoping_answers, qs[last(nth(n))].key, Str("")) >> ]

BuildProjectData(lt, scoping_answers) ==
  [ legacy_type |-> lt,
    scoping_details |-> BuildScoping(FollowUpQuestions(lt), scoping_answers) ]

\* pd is a scope of the catalog within the bounds: a legacy type with an
\* answer to each of its follow-up questions (no legacy type has more than
\* four), at most MaxThemes labels in all, or with no stored answer at all.
IsProjectScope(pd) ==
  \E lt \in Archetypes :
    LET qs == FollowUpQuestions(lt)
    IN  \/ pd = BuildProjectData(lt, <<>>)
        \/ \E a1 \in Choices(qs, 1, MaxThemes) :
           \E a2 \in Choices(qs, 2, MaxThemes - Themes(a1)) :
           \E a3 \in Choices(qs, 3, MaxThemes - Themes(a1) - Themes(a2)) :
           \E a4 \in Choices(qs, 4, MaxThemes - Themes(a1) - Themes(a2) - Themes(a3)) :
             pd = BuildProjectData(lt, ScopingAnswers(qs, << a1, a2, a3, a4 >>))

-----------------------------------------------------------------------------
(* State *)

VARIABLES
  questions_by_category,  \* the QUESTIONS_BY_CATEGORY object of the process
  legacy_type_categories, \* the LEGACY_TYPE_CATEGORIES object of the process
  project_data,           \* argument of the invocation of generate_questions
  pc,                     \* where that invocation stands
  categories,             \* its local `categories` (a list reference)
  idx,                    \* position of its loop over scoping.items()
  result,                 \* its local `result` (category -> list reference)
  lookups,                \* history: every theme lookup of the scan, in order
  generated_questions,    \* what the caller holds (session_state.generated_questions)
  priority_map,           \* session_state.priority_map: question -> priority
  returned,               \* history: argument and value of every return so far
  edits,                  \* number of edits the caller has made
  session_state,          \* st.session_state: the keys of init_state the wizard
                          \*   stores, saved_project_data, and the st.error
                          \*   message of the last run
  invocations             \* the locals of the invocations that run side by side

vars == << questions_by_category, legacy_type_categories, project_data, pc,
           categories, idx, result, lookups, generated_questions, priority_map,
           returned, edits, session_state, invocations >>

\* The state one invocation of generate_questions and its caller leave alone.
elsewhere == << session_state, invocations >>

-----------------------------------------------------------------------------
(* List objects *)

\* A new list object holding items.
Fresh(items) == [ table |-> "", key |-> "", items |-> items ]

\* The list object stored under `key` of a module-level table.
Entry(table, key) == [ table |-> table, key |-> key, items |-> <<>> ]

\* The elements a list reference currently yields.
Items(ref) ==
  CASE ref.table = "" -> ref.items
    [] ref.table = "LEGACY_TYPE_CATEGORIES" -> DictGet(legacy_type_categories, ref.key, <<>>)
    [] ref.table = "QUESTIONS_BY_CATEGORY" -> DictGet(questions_by_category, ref.key, <<>>)

\* list(x): a new list with the elements of x
ListCopy(ref) == Fresh(Items(ref))

\* A mutant of TableGet: the key is looked up in another spelling than the
\* table's, and never found.
TableGetMisspelled(table, contents, key) == Fresh(<<>>)

\* table.get(key, []) as a list reference
TableGet(table, contents, key) ==
  IF HasKey(contents, key) THEN Entry(table, key) ELSE Fresh(<<>>)

-----------------------------------------------------------------------------
(* generate_questions (question_bank.py 342-377) *)

Closing == "Reflection & Legacy"

\* The mutant of BaseCategories: the lookup misses every legacy type.
BaseCategoriesMissing(legacy_type) == Fresh(<<>>)

\* A mutant of BaseCategories: without list(), the list of the table itself.
BaseCategoriesAlias(legacy_type) ==
  TableGet("LEGACY_TYPE_CATEGORIES", legacy_type_categories, legacy_type)

\* A mutant of BaseCategories: a legacy type the table lacks gets the
\* defaults of the first one declared.
BaseCategoriesFallback(legacy_type) ==
  ListCopy(TableGet("LEGACY_TYPE_CATEGORIES", legacy_type_categories,
                    IF HasKey(legacy_type_categories, legacy_type)
                    THEN legacy_type
                    ELSE Keys(legacy_type_categories)[1]))

\* categories = list(LEGACY_TYPE_CATEGORIES.get(legacy_type, []))
BaseCategories(legacy_type) ==
  ListCopy(TableGet("LEGACY_TYPE_CATEGORIES", legacy_type_categories, legacy_type))

\* The mutant of Mapped: a label the table lacks stands for itself.
MappedOrLabel(theme) == DictGet(THEME_TO_CATEGORY, theme, theme)

\* A mutant of Mapped: the table lacks the key of one option label.
MappedButOne(theme) ==
  IF theme = "Faith & Spirituality" THEN "" ELSE DictGet(THEME_TO_CATEGORY, theme, "")

\* A mutant of Mapped: the table holds the first option of a single-choice
\* question as a key.
MappedAlsoOption(theme) ==
  IF theme = LEGACY_TYPES[1][2].follow_up_questions[1].options[1]
  THEN "Values & Life Lessons"
  ELSE DictGet(THEME_TO_CATEGORY, theme, "")

\* THEME_TO_CATEGORY.get(theme); None is written "", as falsy as None is
Mapped(theme) == DictGet(THEME_TO_CATEGORY, theme, "")

\* A mutant of AppendTheme: a category named again moves to the end.
AppendThemeMoveToEnd(cats, theme) ==
  LET mapped == Mapped(theme)
  IN  IF mapped # ""
      THEN Append(SelectSeq(cats, LAMBDA c : c # mapped), mapped)
      ELSE cats

\* A mutant of AppendTheme: a new category goes in front.
AppendThemeInFront(cats, theme) ==
  LET mapped == Mapped(theme)
  IN  IF mapped # "" /\ mapped \notin Range(cats) THEN << mapped >> \o cats ELSE cats

\* mapped = THEME_TO_CATEGORY.get(theme)
\* if mapped and mapped not in categories: categories.append(mapped)
AppendTheme(cats, theme) ==
  LET mapped == Mapped(theme)
  IN  IF mapped # "" /\ mapped \notin Range(cats) THEN Append(cats, mapped) ELSE cats

\* The labels generate_questions looks up for one answer: the elements of a
\* list, a str itself, nothing for any other type.
LookedUp(answer) ==
  CASE answer.type = "list" -> answer.val
    [] answer.type = "str" -> << answer.val >>
    [] OTHER -> <<>>

\* The mutant of ScanThemes: the labels are taken last to first.
ScanThemesBackwards(cats, item, themes) ==
  LET RECURSIVE Scan(_, _)
      Scan(c, n) ==
        IF n = 0 THEN <<>>
        ELSE LET next == AppendTheme(c, themes[n])
             IN  << [ item |-> item, theme |-> themes[n], before |-> c, after |-> next ] >>
                 \o Scan(next, n - 1)
  IN  Scan(cats, Len(themes))

\* for theme in answer: ...   The lookups of the item-th answer in order,
\* each with the label and the list before and after it.
RECURSIVE ScanThemes(_, _, _)
ScanThemes(cats, item, themes) ==
  IF themes = <<>> THEN <<>>
  ELSE LET next == AppendTheme(cats, Head(themes))
       IN  << [ item |-> item, theme |-> Head(themes),
                before |-> cats, after |-> next ] >>
           \o ScanThemes(next, item, Tail(themes))

\* The list a scan that started from cats leaves.
Scanned(cats, log) == IF log = <<>> THEN cats ELSE log[Len(log)].after

\* A mutant of WithClosing: the closing category is put in front.
ClosingInFront(cats) == IF Closing \notin Range(cats) THEN << Closing >> \o cats ELSE cats

\* if "Reflection & Legacy" not in categories: categories.append(...)
WithClosing(cats) == IF Closing \notin Range(cats) THEN Append(cats, Closing) ELSE cats

\* A mutant of QuestionsCopy: no copy, the master list itself.
QuestionsAlias(questions) == questions

\* A mutant of QuestionsCopy: the copy starts at the second question.
QuestionsCopySkipFirst(questions) == Fresh(Tail(Items(questions)))

\* result[cat] = list(questions)
QuestionsCopy(questions) == ListCopy(questions)

\* A mutant of AssembleResult: without `if questions:`, a category the
\* pool misses is kept with an empty list.
RECURSIVE AssembleResultKeepEmpty(_, _)
AssembleResultKeepEmpty(cats, res) ==
  IF cats = <<>> THEN res
  ELSE AssembleResultKeepEmpty(Tail(cats),
         DictSet(res, Head(cats),
                 ListCopy(TableGet("QUESTIONS_BY_CATEGORY", questions_by_category, Head(cats)))))

\* for cat in categories: questions = QUESTIONS_BY_CATEGORY.get(cat, []) ...
RECURSIVE AssembleResult(_, _)
AssembleResult(cats, res) ==
  IF cats = <<>> THEN res
  ELSE LET cat == Head(cats)
           questions == TableGet("QUESTIONS_BY_CATEGORY", questions_by_category, cat)
       IN  AssembleResult(Tail(cats),
                          IF Items(questions) # <<>>
                          THEN DictSet(res, cat, QuestionsCopy(questions))
                          ELSE res)

\* The value of an OrderedDict of lists: category and questions, in order.
Value(od) == [ i \in 1..Len(od) |-> << od[i][1], Items(od[i][2]) >> ]

NoLocals ==
  /\ categories' = Fresh(<<>>)
  /\ idx' = 0
  /\ result' = <<>>

\* Lines 348-351.
Start ==
  /\ pc = "start"
  /\ categories' = BaseCategories(project_data.legacy_type)
  /\ idx' = 1
  /\ pc' = "scan"
  /\ UNCHANGED << questions_by_category, legacy_type_categories, project_data,
                  result, lookups, generated_questions, priority_map, returned, edits,
                  elsewhere >>

\* Assignment through the reference `categories`: the list it names changes.
SetCategories(new) ==
  /\ categories' = IF categories.table = "" THEN Fresh(new) ELSE categories
  /\ legacy_type_categories' =
       IF categories.table = "LEGACY_TYPE_CATEGORIES"
       THEN DictSet(legacy_type_categories, categories.key, new)
       ELSE legacy_type_categories

\* Lines 354-364, one answer of scoping.items().
ScanAnswer ==
  /\ pc = "scan"
  /\ idx <= Len(project_data.scoping_details)
  /\ LET answer == project_data.scoping_details[idx][2]
         log == ScanThemes(Items(categories), idx, LookedUp(answer))
     IN  /\ SetCategories(Scanned(Items(categories), log))
         /\ lookups' = lookups \o log
  /\ idx' = idx + 1
  /\ UNCHANGED << questions_by_category, project_data, pc, result,
                  generated_questions, priority_map, returned, edits, elsewhere >>

\* Lines 366-368, once the loop is over.
AppendClosing ==
  /\ pc = "scan"
  /\ idx > Len(project_data.scoping_details)
  /\ SetCategories(WithClosing(Items(categories)))
  /\ pc' = "assemble"
  /\ UNCHANGED << questions_by_category, project_data, idx, result, lookups,
                  generated_questions, priority_map, returned, edits, elsewhere >>

\* Lines 370-375.
Assemble ==
  /\ pc = "assemble"
  /\ result' = AssembleResult(Items(categories), <<>>)
  /\ pc' = "return"
  /\ UNCHANGED << questions_by_category, legacy_type_categories, project_data,
                  categories, idx, lookups, generated_questions, priority_map,
                  returned, edits, elsewhere >>

\* Line 377, and what the caller does with the value (app.py 534-535).
Return ==
  /\ pc = "return"
  /\ generated_questions' = result
  /\ priority_map' = <<>>
  /\ returned' = Append(returned, [ project_data |-> project_data,
                                    value |-> Value(result),
                                    edits |-> edits ])
  /\ pc' = "returned"
  /\ NoLocals
  /\ UNCHANGED << questions_by_category, legacy_type_categories, project_data,
                  lookups, edits, elsewhere >>

TablesInit ==
  /\ questions_by_category = QUESTIONS_BY_CATEGORY
  /\ legacy_type_categories = LEGACY_TYPE_CATEGORIES

\* None, where a legacy type is expected (no legacy type is spelled so).
None == "<None>"

\* What the user does to the page of step 6 before a run of the script: one
\* widget at most is touched (here none).
NoInput == [ kind |-> "none", cat |-> 0, q |-> 0, text |-> "", pri |-> "", name |-> "" ]

\* The widgets of step 6 (app.py 585-611, 632-634) while the page is not
\* shown: the session holds no value for any widget key. `state` maps a
\* widget key, << kind, cat_idx, q_idx >>, to the value held and the default
\* the widget had when the value was first held; `clicked` is the button that
\* started the run; `keyed` tells how the build of Streamlit identifies a
\* widget (the source pins no version): by its key alone, or by its
\* arguments, the default among them; `touched` is history, the last thing
\* the user did.
NoWidgets == [ keyed |-> FALSE, state |-> <<>>, clicked |-> <<>>, touched |-> NoInput ]

\* init_state (app.py 90-109); generated_questions and priority_map are
\* variables of their own. saved_project_data is a key the session state
\* lacks until Confirm: <<>> for absent, << value >> for present.
\* answered_for is history: the legacy type whose questions scoping_answers
\* was last stored for. error is what st.error showed in the last run of the
\* script, "" when it showed nothing. widgets is the widget state of step 6.
InitState ==
  [ step |-> 1, legacy_type |-> None, scoping_answers |-> <<>>,
    audiences |-> <<>>, audience_detail |-> "", delivery_formats |-> <<>>,
    subject_name |-> "", subject_relationship |-> "", timeline |-> "",
    additional_notes |-> "", questions_generated |-> FALSE,
    saved_project_data |-> <<>>, answered_for |-> None, error |-> "",
    widgets |-> NoWidgets ]

CallInit ==
  /\ session_state = InitState
  /\ invocations = <<>>
  /\ pc = "start"
  /\ categories = Fresh(<<>>)
  /\ idx = 0
  /\ result = <<>>
  /\ lookups = <<>>
  /\ generated_questions = <<>>
  /\ priority_map = <<>>
  /\ returned = <<>>
  /\ edits = 0

\* One invocation on any scope of the catalog.
Init ==
  /\ TablesInit
  /\ IsProjectScope(project_data)
  /\ CallInit

Next == Start \/ ScanAnswer \/ AppendClosing \/ Assemble \/ Return

Spec == Init /\ [][Next]_vars

-----------------------------------------------------------------------------
(* The caller: repeated invocations, edits of the lists it was given, and
   the step-6 render of the wizard (app.py 576-647). *)

\* The scopes the caller invokes generate_questions on.
CallerScopes ==
  { BuildProjectData("Words of Wisdom", <<>>),
    BuildProjectData("Love & Family",
                     << << "relationship_focus",
                           List(<< "Chosen family & community bonds" >>) >> >>) }

\* What the user types: a question within spaces, and spaces alone.
NewQuestion == "What was your first pet's name?"

PaddedQuestion == "  What was your first pet's name?  "

Blank == "   "

TypedTexts == { PaddedQuestion, Blank }

\* The category names the user types: a new one, an existing one, spaces.
TypedNames == { "Hobbies & Pastimes", Closing, Blank }

\* str.strip() on the strings of the model (no other string of the model
\* starts or ends with white space).
Strip(t) ==
  CASE t = PaddedQuestion -> NewQuestion
    [] t = Blank -> ""
    [] OTHER -> t

\* pri_options (app.py 596)
PriOptions == << "Must Ask", "Nice to Have", "Optional" >>

\* The positions of a list an edit of the model addresses: first and last.
EditPositions(list) == { 1, Len(list) } \cap (1..Len(list))

\* Another invocation (Confirm at step 5 again, app.py 526-534).
Call ==
  /\ pc = "returned"
  /\ Len(returned) < MaxCalls
  /\ project_data' \in CallerScopes
  /\ pc' = "start"
  /\ lookups' = <<>>
  /\ UNCHANGED << questions_by_category, legacy_type_categories, categories, idx,
                  result, generated_questions, priority_map, returned, edits,
                  elsewhere >>

\* Assignment through the list reference of the i-th category the caller
\* holds: the list it names changes.
EditList(i, new) ==
  LET ref == generated_questions[i][2]
  IN  /\ generated_questions' =
           IF ref.table = ""
           THEN [ generated_questions EXCEPT ![i] = << @[1], Fresh(new) >> ]
           ELSE generated_questions
      /\ questions_by_category' =
           IF ref.table = "QUESTIONS_BY_CATEGORY"
           THEN DictSet(questions_by_category, ref.key, new)
           ELSE questions_by_category

Edited ==
  /\ edits' = edits + 1
  /\ UNCHANGED << legacy_type_categories, project_data, pc, categories, idx,
                  result, lookups, returned, elsewhere >>

\* generated_questions[cat].append(question)
CallerAppend ==
  /\ pc = "returned"
  /\ edits < MaxEdits
  /\ \E i \in 1..Len(generated_questions) :
       EditList(i, Append(Items(generated_questions[i][2]), NewQuestion))
  /\ UNCHANGED priority_map
  /\ Edited

\* del generated_questions[cat][j]
CallerDelete ==
  /\ pc = "returned"
  /\ edits < MaxEdits
  /\ \E i \in 1..Len(generated_questions) :
       LET list == Items(generated_questions[i][2])
       IN  \E j \in EditPositions(list) :
             EditList(i, SubSeq(list, 1, j - 1) \o SubSeq(list, j + 1, Len(list)))
  /\ UNCHANGED priority_map
  /\ Edited

\* generated_questions[cat][j] = question
CallerReplace ==
  /\ pc = "returned"
  /\ edits < MaxEdits
  /\ \E i \in 1..Len(generated_questions) :
       LET list == Items(generated_questions[i][2])
       IN  \E j \in EditPositions(list) :
             EditList(i, [ list EXCEPT ![j] = NewQuestion ])
  /\ UNCHANGED priority_map
  /\ Edited

\* The widgets of the questions the model's user touches.
Addressed(questions) ==
  UNION { { << c, j >> : j \in EditPositions(Items(questions[c][2])) } :
          c \in 1..Len(questions) }

Interactions(questions) ==
  { NoInput }
  \cup { [ NoInput EXCEPT !.kind = "text", !.cat = at[1], !.q = at[2], !.text = t ] :
           at \in Addressed(questions), t \in TypedTexts }
  \cup { [ NoInput EXCEPT !.kind = "delete", !.cat = at[1], !.q = at[2] ] :
           at \in Addressed(questions) }
  \cup { [ NoInput EXCEPT !.kind = "priority", !.cat = at[1], !.q = at[2],
                          !.pri = PriOptions[n] ] :
           at \in Addressed(questions), n \in 1..Len(PriOptions) }
  \cup { [ NoInput EXCEPT !.kind = "add", !.cat = c, !.text = t ] :
           c \in 1..Len(questions), t \in TypedTexts }
  \cup { [ NoInput EXCEPT !.kind = "add_category", !.name = n, !.text = t ] :
           n \in TypedNames, t \in TypedTexts }

\* What st.text_input, st.selectbox and st.checkbox return for the widget
\* key k (lines 585-605, 611, 632-633): the value the session holds for k,
\* the default when it holds none. A build that identifies the widget by
\* its arguments takes a widget whose default has changed for a new one.
Widget(w, k, default) ==
  IF k \in DOMAIN w.state /\ (w.keyed \/ w.state[k].seen = default)
  THEN w.state[k].value
  ELSE default

\* The default of the widget k on a page of `questions`: value=question
\* (line 587), index=pri_options.index(current_pri) (lines 595-600), an
\* unticked box, an empty input.
Default(k, questions) ==
  CASE k[1] = "edit" -> Items(questions[k[2]][2])[k[3]]
    [] k[1] = "pri" ->
         LET current_pri == DictGet(priority_map, Items(questions[k[2]][2])[k[3]],
                                    "Nice to Have")
         IN  IF current_pri \in Range(PriOptions) THEN current_pri ELSE PriOptions[2]
    [] k[1] = "del" -> FALSE
    [] OTHER -> ""

\* The widgets after the user has done i on the page: a text typed, a
\* priority picked, a box ticked or unticked, a text typed and its button
\* clicked. A widget the page shows keeps the default it was shown with.
Touched(w, i, questions) ==
  LET set(s, k, v) ==
        (k :> [ seen |-> IF k \in DOMAIN s THEN s[k].seen ELSE Default(k, questions),
                value |-> v ]) @@ s
      at(kind) == << kind, i.cat, i.q >>
  IN  [ w EXCEPT
          !.touched = IF i.kind = "none" THEN @ ELSE i,
          !.clicked = CASE i.kind = "add" -> << "addbtn", i.cat, 0 >>
                        [] i.kind = "add_category" -> << "add_cat_btn", 0, 0 >>
                        [] OTHER -> <<>>,
          !.state = CASE i.kind = "text" -> set(@, at("edit"), i.text)
                      [] i.kind = "priority" -> set(@, at("pri"), i.pri)
                      [] i.kind = "delete" -> set(@, at("del"), ~Widget(w, at("del"), FALSE))
                      [] i.kind = "add" -> set(@, << "add", i.cat, 0 >>, i.text)
                      [] i.kind = "add_category" ->
                           set(set(@, << "new_cat_name", 0, 0 >>, i.name),
                               << "new_cat_q", 0, 0 >>, i.text)
                      [] OTHER -> @ ]

\* The widgets after a run of step 6 on `questions`: the session holds the
\* value of every widget the run has shown and of no other; no button is
\* clicked any more.
Shown(w, questions) ==
  LET keys ==
        UNION { { << "edit", c, j >>, << "pri", c, j >>, << "del", c, j >> } :
                  << c, j >> \in UNION { { << c, j >> : j \in 1..Len(Items(questions[c][2])) } :
                                        c \in 1..Len(questions) } }
        \cup { << "add", c, 0 >> : c \in 1..Len(questions) }
        \cup { << "new_cat_name", 0, 0 >>, << "new_cat_q", 0, 0 >> }
  IN  [ w EXCEPT !.clicked = <<>>,
                 !.state = [ k \in keys |->
                               [ seen |-> Default(k, questions),
                                 value |-> Widget(w, k, Default(k, questions)) ] ] ]

\* Lines 583-609: the questions of category c from q_list[j] on.
RECURSIVE EditQuestions(_, _, _, _, _)
EditQuestions(w, c, q_list, j, acc) ==
  IF j > Len(q_list) THEN acc
  ELSE LET question == q_list[j]
           new_text == Widget(w, << "edit", c, j >>, question)
           current_pri == DictGet(priority_map, question, "Nice to Have")
           pri == Widget(w, << "pri", c, j >>,
                         IF current_pri \in Range(PriOptions) THEN current_pri
                         ELSE PriOptions[2])
           delete == Widget(w, << "del", c, j >>, FALSE)
       IN  EditQuestions(w, c, q_list, j + 1,
             IF ~delete /\ Strip(new_text) # ""
             THEN [ list |-> Append(acc.list, Strip(new_text)),
                    pris |-> DictSet(acc.pris, Strip(new_text), pri) ]
             ELSE acc)

\* Lines 611-625: the Add button of category c.
AddQuestion(w, c, acc) ==
  LET new_q == Widget(w, << "add", c, 0 >>, "")
  IN  IF w.clicked = << "addbtn", c, 0 >> /\ Strip(new_q) # ""
      THEN [ list |-> Append(acc.list, Strip(new_q)),
             pris |-> DictSet(acc.pris, Strip(new_q), "Nice to Have") ]
      ELSE acc

\* Lines 580-628: the categories from the c-th on.
RECURSIVE EditCategories(_, _, _, _)
EditCategories(w, questions, c, acc) ==
  IF c > Len(questions) THEN acc
  ELSE LET e == AddQuestion(w, c,
                  EditQuestions(w, c, Items(questions[c][2]), 1,
                                [ list |-> <<>>, pris |-> acc.pris ]))
       IN  IF e.list # <<>>
           THEN EditCategories(w, questions, c + 1,
                  [ questions |-> DictSet(acc.questions, questions[c][1], Fresh(e.list)),
                    pris |-> e.pris ])
           ELSE EditCategories(w, questions, c + 1,
                  [ questions |-> acc.questions, pris |-> e.pris ])

\* Lines 630-642: the Add Category button.
AddCategory(w, acc) ==
  LET new_cat_name == Widget(w, << "new_cat_name", 0, 0 >>, "")
      new_cat_q == Widget(w, << "new_cat_q", 0, 0 >>, "")
  IN  IF /\ w.clicked = << "add_cat_btn", 0, 0 >>
         /\ Strip(new_cat_name) # "" /\ Strip(new_cat_q) # ""
      THEN [ questions |-> DictSet(acc.questions, Strip(new_cat_name),
                                   Fresh(<< Strip(new_cat_q) >>)),
             pris |-> DictSet(acc.pris, Strip(new_cat_q), "Nice to Have") ]
      ELSE acc

\* A mutant of Persist: the result of the run is stored even when empty.
PersistAlways(updated) ==
  /\ generated_questions' = updated.questions
  /\ priority_map' = updated.pris

\* Lines 644-647: if updated_questions: generated_questions and priority_map
\* are replaced.
Persist(updated) ==
  IF updated.questions # <<>>
  THEN /\ generated_questions' = updated.questions
       /\ priority_map' = updated.pris
  ELSE UNCHANGED << generated_questions, priority_map >>

\* One run of step 6 (lines 576-647) on a page not shown before, but for
\* the one thing i the user has done to it.
Step6Render ==
  /\ pc = "returned"
  /\ edits < MaxEdits
  /\ \E i \in Interactions(generated_questions) :
       LET w == Touched(NoWidgets, i, generated_questions)
       IN  Persist(AddCategory(w, EditCategories(w, generated_questions, 1,
                                                 [ questions |-> <<>>, pris |-> <<>> ])))
  /\ UNCHANGED questions_by_category
  /\ Edited

\* The first invocation is on a scope of the caller.
InitCaller ==
  /\ TablesInit
  /\ project_data \in CallerScopes
  /\ CallInit

NextCaller ==
  \/ Start \/ ScanAnswer \/ AppendClosing \/ Assemble \/ Return
  \/ Call \/ CallerAppend \/ CallerDelete \/ CallerReplace \/ Step6Render

SpecCaller == InitCaller /\ [][NextCaller]_vars

-----------------------------------------------------------------------------
(* Any input: generate_questions on a project_data no wizard assembled, and
   build_project_data on any session state (app.py 120-146, 529-534). *)

\* A legacy type no table knows.
UnknownArchetype == "Recipes & Traditions"

\* The answer None: neither a list nor a str.
NoneAnswer == [ type |-> "NoneType", val |-> "" ]

\* The labels of the open scopes: two names for one category, a name for the
\* closing category, a name for a category no legacy type has among its
\* defaults but one, and a label no table knows.
OpenLabels ==
  { "Faith & Spirituality", "Faith & spiritual guidance",
    "What I want them to know", "Military Service", UnknownLabel }

\* The answers of the open scopes that hold n labels at most.
OpenAnswers(n) ==
  { NoneAnswer, Str("") }
  \cup { List(s) : s \in SeqsUpTo(OpenLabels, n) }
  \cup (IF n > 0 THEN { Str(l) : l \in OpenLabels } ELSE {})

\* The legacy types of the open scopes.
OpenArchetypes ==
  { "Faith & Spiritual Journey", "Words of Wisdom", UnknownArchetype, None }

\* pd is an open scope: any legacy type with up to two answers under
\* question texts of its own.
IsOpenScope(pd) ==
  \E lt \in OpenArchetypes :
    \/ pd = [ legacy_type |-> lt, scoping_details |-> <<>> ]
    \/ \E a1 \in OpenAnswers(MaxThemes) :
         \/ pd = [ legacy_type |-> lt,
                   scoping_details |-> << << "What matters most?", a1 >> >> ]
         \/ \E a2 \in OpenAnswers(MaxThemes - Len(LookedUp(a1))) :
              pd = [ legacy_type |-> lt,
                     scoping_details |-> << << "What matters most?", a1 >>,
                                            << "What else?", a2 >> >> ]

\* No project data (build_project_data has not returned any).
NoProjectData == [ legacy_type |-> None, scoping_details |-> <<>> ]

\* A mutant of Subscript: a missing key yields the first entry of the table.
SubscriptOrFirst(d, k) ==
  [ found |-> TRUE, value |-> DictGet(d, k, d[1][2]) ]

\* d[k]: the value under k, or KeyError (found = FALSE) when d lacks k.
Subscript(d, k) ==
  IF HasKey(d, k)
  THEN [ found |-> TRUE, value |-> DictGet(d, k, <<>>) ]
  ELSE [ found |-> FALSE, value |-> <<>> ]

\* project_data = build_project_data(), then generate_questions(project_data)
\* (app.py 529-534): lt_data = LEGACY_TYPES[lt] raises KeyError, or the project
\* data is assembled from lt_data's follow-up questions and handed over.
Build ==
  /\ pc = "build"
  /\ LET lt == session_state.legacy_type
         lt_data == Subscript(LEGACY_TYPES, lt)
     IN  IF lt_data.found
         THEN /\ project_data' =
                   [ legacy_type |-> lt,
                     scoping_details |-> BuildScoping(lt_data.value.follow_up_questions,
                                                      session_state.scoping_answers) ]
              /\ pc' = "start"
         ELSE /\ pc' = "KeyError"
              /\ UNCHANGED project_data
  /\ UNCHANGED << questions_by_category, legacy_type_categories, categories, idx,
                  result, lookups, generated_questions, priority_map, returned,
                  edits, elsewhere >>

\* The session states build_project_data is called on: any legacy type, no
\* stored answer or an answer to the first follow-up question.
IsOpenSession(ss) ==
  \E lt \in Archetypes \cup { UnknownArchetype, None } :
    LET qs == FollowUpQuestions(lt)
    IN  \/ ss = [ InitState EXCEPT !.step = 5, !.legacy_type = lt ]
        \/ /\ qs # <<>>
           /\ \E a1 \in Choices(qs, 1, MaxThemes) :
                ss = [ InitState EXCEPT !.step = 5, !.legacy_type = lt,
                                        !.scoping_answers = << << qs[1].key, a1 >> >> ]
        \/ /\ Len(qs) >= 2
           /\ \E a1 \in Choices(qs, 1, 1), a2 \in Choices(qs, 2, 1) :
                ss = [ InitState EXCEPT !.step = 5, !.legacy_type = lt,
                                        !.scoping_answers = << << qs[2].key, a2 >>,
                                                               << qs[1].key, a1 >> >> ]

\* A call of generate_questions on an open scope, or a call of
\* build_project_data on an open session followed by generate_questions.
InitOpen ==
  /\ TablesInit
  /\ categories = Fresh(<<>>)
  /\ idx = 0
  /\ result = <<>>
  /\ lookups = <<>>
  /\ generated_questions = <<>>
  /\ priority_map = <<>>
  /\ returned = <<>>
  /\ edits = 0
  /\ invocations = <<>>
  /\ \/ /\ pc = "start"
        /\ session_state = InitState
        /\ IsOpenScope(project_data)
     \/ /\ pc = "build"
        /\ IsOpenSession(session_state)
        /\ project_data = NoProjectData

NextOpen == Build \/ Start \/ ScanAnswer \/ AppendClosing \/ Assemble \/ Return

SpecOpen == InitOpen /\ [][NextOpen]_vars

-----------------------------------------------------------------------------
(* What the claims speak of, at the point where generate_questions returns. *)

AtReturn == pc = "return"

\* The category sequence of the value about to be returned.
Output == Keys(result)

\* The position of c in the sequence s, 0 when s does not hold it.
Pos(s, c) == IF c \in Range(s) THEN CHOOSE i \in 1..Len(s) : s[i] = c /\ \A j \in 1..(i - 1) : s[j] # c
             ELSE 0

\* The default categories the catalog declares for the scope's legacy type.
DeclaredDefaults == DictGet(LEGACY_TYPE_CATEGORIES, project_data.legacy_type, <<>>)

\* The follow-up question of the scope's legacy type with the given text.
QuestionWithText(text) ==
  LET qs == FollowUpQuestions(project_data.legacy_type)
  IN  qs[CHOOSE i \in 1..Len(qs) : qs[i].question = text]

\* The labels of the scope in scan order: the questions in the order the
\* legacy type declares them, the labels of one answer in selection order.
RECURSIVE LabelsFrom(_, _)
LabelsFrom(qs, i) ==
  IF i > Len(qs) THEN <<>>
  ELSE LookedUp(DictGet(project_data.scoping_details, qs[i].question, Str("")))
       \o LabelsFrom(qs, i + 1)

ScanOrder == LabelsFrom(FollowUpQuestions(project_data.legacy_type), 1)

\* The categories the labels of the scope name, in scan order.
Mentioned ==
  LET known == SelectSeq(ScanOrder, LAMBDA l : HasKey(THEME_TO_CATEGORY, l))
  IN  [ i \in 1..Len(known) |-> DictGet(THEME_TO_CATEGORY, known[i], "") ]

\* Every insertion the selection asks for, in order: the defaults, the
\* categories the answers name, the closing category.
Insertions == DeclaredDefaults \o Mentioned \o << Closing >>

-----------------------------------------------------------------------------
(* C1. Closing-category guarantee: for every legacy type of the catalog and
   every combination of scoping answers, the returned category sequence holds
   "Reflection & Legacy" exactly once, as its last element. *)
C1_ClosingCategoryLast ==
  AtReturn =>
    /\ Cardinality({ i \in 1..Len(Output) : Output[i] = Closing }) = 1
    /\ Output[Len(Output)] = Closing

(* C2. Free-text immunity: the answer to a free-text scoping question never
   adds a category, whatever string it holds. *)
C2_FreeTextImmunity ==
  \A k \in 1..Len(lookups) :
    QuestionWithText(project_data.scoping_details[lookups[k].item][1]).type = "text"
      => lookups[k].after = lookups[k].before

(* C3. De-duplication: the returned category sequence repeats no category, and
   a category that several answers (or a default and an answer) name stands
   where it was first inserted. *)
C3_Deduplicated ==
  AtReturn =>
    LET out == Output
        ins == Insertions
        at == [ i \in 1..Len(out) |-> Pos(ins, out[i]) ]
    IN  /\ \A i, j \in 1..Len(out) : i # j => out[i] # out[j]
        /\ Range(out) = Range(ins)
        /\ \A i \in 1..(Len(out) - 1) : at[i] < at[i + 1]

\* Two different labels of the scope name one category, outside the defaults.
C3_Witness ==
  /\ AtReturn
  /\ \E a, b \in 1..Len(ScanOrder) :
       /\ a < b
       /\ ScanOrder[a] # ScanOrder[b]
       /\ Mapped(ScanOrder[a]) # ""
       /\ Mapped(ScanOrder[a]) = Mapped(ScanOrder[b])
       /\ Mapped(ScanOrder[a]) \notin Range(DeclaredDefaults)
       /\ Mapped(ScanOrder[a]) \in Range(Output)

\* No answer of the scope holds a label: each is "" or an empty list.
NoScopingAnswers ==
  \A i \in 1..Len(project_data.scoping_details) :
    Range(LookedUp(project_data.scoping_details[i][2])) \subseteq { "" }

(* C5. Default inclusion: for "Faith & Spiritual Journey" with no scoping
   answers the returned category sequence is exactly "Faith & Spirituality",
   "Values & Life Lessons", "Reflection & Legacy". *)
C5_FaithDefaults ==
  (AtReturn /\ project_data.legacy_type = "Faith & Spiritual Journey" /\ NoScopingAnswers)
    => Output = << "Faith & Spirituality", "Values & Life Lessons", "Reflection & Legacy" >>

C5_Witness ==
  AtReturn /\ project_data.legacy_type = "Faith & Spiritual Journey" /\ NoScopingAnswers

(* C6. Defaults first: the default categories of the legacy type, in their
   declared order, are a prefix of the returned category sequence, and every
   category that only the answers name comes after all of them. *)
C6_DefaultsFirst ==
  AtReturn =>
    LET out == Output
        defaults == DeclaredDefaults
    IN  /\ Len(out) >= Len(defaults)
        /\ SubSeq(out, 1, Len(defaults)) = defaults
        /\ \A c \in Range(Mentioned) \ Range(defaults) : Pos(out, c) > Len(defaults)

\* A scope whose answers name a category outside its defaults.
C6_Witness ==
  /\ AtReturn
  /\ DeclaredDefaults # <<>>
  /\ \E c \in Range(Mentioned) \ Range(DeclaredDefaults) : c \in Range(Output)

(* C7. Scan-order preservation: the categories the answers introduce stand in
   the output in scan order (questions in declaration order, the labels of one
   multi-choice answer in selection order); for "Full Life Story" with themes
   "Travel & Adventures", "Military Service", "Adventures & Experiences"
   precedes "Military & Service". *)
C7_ScanOrder ==
  AtReturn =>
    LET out == Output
        named == Mentioned
        new == Range(named) \ Range(DeclaredDefaults)
    IN  /\ \A c, d \in new :
             Pos(named, c) < Pos(named, d) => (0 < Pos(out, c) /\ Pos(out, c) < Pos(out, d))
        /\ ( /\ project_data.legacy_type = "Full Life Story"
             /\ DictGet(project_data.scoping_details,
                        "Which life themes are most important to include? (Select all that apply)",
                        Str("")) = List(<< "Travel & Adventures", "Military Service" >>) )
             => ( /\ 0 < Pos(out, "Adventures & Experiences")
                  /\ Pos(out, "Adventures & Experiences") < Pos(out, "Military & Service") )

\* One multi-choice answer whose two labels each introduce a category.
C7_Witness ==
  /\ AtReturn
  /\ \E k \in 1..(Len(lookups) - 1) :
       /\ lookups[k].item = lookups[k + 1].item
       /\ lookups[k].after # lookups[k].before
       /\ lookups[k + 1].after # lookups[k + 1].before

(* C8. Unknown-label tolerance: a label that is no key of THEME_TO_CATEGORY
   adds no category, does not stop the scan (every label of the scope is
   looked up, in scan order), and leaves the other labels' categories in. *)
C8_UnknownLabelTolerance ==
  AtReturn =>
    /\ \A k \in 1..Len(lookups) :
         IF HasKey(THEME_TO_CATEGORY, lookups[k].theme)
         THEN /\ DictGet(THEME_TO_CATEGORY, lookups[k].theme, "") \in Range(lookups[k].after)
              /\ Range(lookups[k].before) \subseteq Range(lookups[k].after)
         ELSE lookups[k].after = lookups[k].before
    /\ [ k \in 1..Len(lookups) |-> lookups[k].theme ] = ScanOrder
    /\ Range(Mentioned) \subseteq Range(Output)

\* An unknown label selected before a label that introduces a category.
C8_Witness ==
  /\ AtReturn
  /\ \E k \in 1..(Len(lookups) - 1) :
       /\ lookups[k].theme = UnknownLabel
       /\ lookups[k].item = lookups[k + 1].item
       /\ lookups[k + 1].after # lookups[k + 1].before

(* C9. Question-list fidelity: every category of the result carries exactly
   the questions QUESTIONS_BY_CATEGORY declares for it, in the same order. *)
C9_QuestionListFidelity ==
  AtReturn =>
    \A i \in 1..Len(result) :
      Items(result[i][2]) = DictGet(QUESTIONS_BY_CATEGORY, result[i][1], <<>>)

\* A result that holds a default, a theme-derived and the closing category.
C9_Witness ==
  /\ AtReturn
  /\ Len(result) > Len(DeclaredDefaults) + 1
  /\ \A i \in 1..Len(result) : Items(result[i][2]) # <<>>

(* C4. Determinism: two invocations on equal project_data return the same
   category order and the same question lists, whatever other invocations and
   whatever edits of earlier results came between them. *)
C4_Determinism ==
  \A a, b \in 1..Len(returned) :
    returned[a].project_data = returned[b].project_data
      => returned[a].value = returned[b].value

\* Two returns for one scope with a return for another scope and an edit of
\* an earlier result between them.
C4_Witness ==
  \E a, b, c \in 1..Len(returned) :
    /\ a < c /\ c < b
    /\ returned[a].project_data = returned[b].project_data
    /\ returned[c].project_data # returned[a].project_data
    /\ returned[b].edits > returned[a].edits

(* C10. Independent copy: after any caller edits of the returned lists
   (append, delete, replace, the step-6 render), QUESTIONS_BY_CATEGORY is as
   declared and a later invocation returns the declared lists. *)
C10_IndependentCopy ==
  /\ questions_by_category = QUESTIONS_BY_CATEGORY
  /\ \A a \in 1..Len(returned) :
       \A i \in 1..Len(returned[a].value) :
         returned[a].value[i][2] =
           DictGet(QUESTIONS_BY_CATEGORY, returned[a].value[i][1], <<>>)

\* A return without an edit before it, an edit of its lists, another return.
C10_Witness ==
  /\ pc = "returned"
  /\ Len(returned) > 1
  /\ returned[Len(returned)].edits > 0
  /\ returned[Len(returned) - 1].edits = 0
  /\ Value(generated_questions) = returned[Len(returned)].value

-----------------------------------------------------------------------------
(* What the answers of any project_data derive. *)

\* The labels generate_questions meets in scoping_details from item i on.
RECURSIVE LabelsOf(_, _)
LabelsOf(details, i) ==
  IF i > Len(details) THEN <<>>
  ELSE LookedUp(details[i][2]) \o LabelsOf(details, i + 1)

\* The elements of s, each at its first place only.
RECURSIVE Distinct(_)
Distinct(s) ==
  IF s = <<>> THEN <<>>
  ELSE LET d == Distinct(SubSeq(s, 1, Len(s) - 1))
       IN  IF s[Len(s)] \in Range(d) THEN d ELSE Append(d, s[Len(s)])

\* The categories the answers of project_data name, in scan order.
ThemeDerived ==
  LET labels == LabelsOf(project_data.scoping_details, 1)
      known == SelectSeq(labels, LAMBDA l : HasKey(THEME_TO_CATEGORY, l))
  IN  Distinct([ i \in 1..Len(known) |-> DictGet(THEME_TO_CATEGORY, known[i], "") ])

\* generate_questions is running on, or has run on, project_data.
Invoked == pc \in { "start", "scan", "assemble", "return", "returned" }

UnknownLegacyType == ~HasKey(LEGACY_TYPE_CATEGORIES, project_data.legacy_type)

(* C11. Unknown archetype degrades gracefully: when the legacy type of
   project_data is no key of LEGACY_TYPE_CATEGORIES, generate_questions
   raises nothing, starts from an empty default list, and returns exactly the
   theme-derived categories in scan order, followed by "Reflection & Legacy"
   if the answers did not derive it. *)
C11_UnknownArchetype ==
  (Invoked /\ UnknownLegacyType) =>
    /\ pc = "start" => ENABLED Start
    /\ (pc = "scan" /\ idx = 1) => Items(categories) = <<>>
    /\ AtReturn =>
         Output = IF Closing \in Range(ThemeDerived)
                  THEN ThemeDerived
                  ELSE Append(ThemeDerived, Closing)

\* A return for an unknown legacy type whose answers derive two categories.
C11_Witness ==
  /\ AtReturn
  /\ project_data.legacy_type = UnknownArchetype
  /\ Len(ThemeDerived) >= 2
  /\ Len(Output) >= 3

(* C13. The closing category is always supplied: for every input (any legacy
   type, known or not, any answers) the result is not empty and holds the key
   "Reflection & Legacy"; when neither the defaults nor an answer produced
   it, it stands after every other category, as the last one. *)
C13_ClosingSupplied ==
  AtReturn =>
    /\ Output # <<>>
    /\ Closing \in Range(Output)
    /\ (Closing \notin Range(DeclaredDefaults) /\ Closing \notin Range(ThemeDerived))
         => /\ Output[Len(Output)] = Closing
            /\ SubSeq(Output, 1, Len(Output) - 1) = Distinct(DeclaredDefaults \o ThemeDerived)

\* A return where only the closing step supplied the closing category, after
\* a category the answers derived.
C13_Witness ==
  /\ AtReturn
  /\ Closing \notin Range(DeclaredDefaults)
  /\ Closing \notin Range(ThemeDerived)
  /\ ThemeDerived # <<>>
  /\ Output[Len(Output)] = Closing

(* C16. The strict catalog lookup fails on an unknown archetype: when
   build_project_data looks up a legacy type that is no key of LEGACY_TYPES,
   LEGACY_TYPES[lt] ends in KeyError and no project data comes back (no
   default entry stands in, generate_questions is not reached). *)
C16_StrictLookup ==
  (session_state.step = 5 /\ pc # "build") =>
    IF HasKey(LEGACY_TYPES, session_state.legacy_type)
    THEN pc # "KeyError" /\ project_data.legacy_type = session_state.legacy_type
    ELSE pc = "KeyError" /\ project_data = NoProjectData /\ returned = <<>>

\* build_project_data has raised on a legacy type the catalog lacks.
C16_Witness ==
  /\ pc = "KeyError"
  /\ session_state.legacy_type = UnknownArchetype
  /\ project_data = NoProjectData

-----------------------------------------------------------------------------
(* Incomplete pools: generate_questions on a QUESTIONS_BY_CATEGORY that
   lacks a category or holds an empty list for it (question_bank.py 372-375). *)

\* The categories a pool of the model may miss: a default of one legacy type
\* that answers also derive, and the closing category.
MissedCategories == { "Faith & Spirituality", Closing }

\* The pool without the entry of category c.
PoolWithout(pool, c) == SelectSeq(pool, LAMBDA entry : entry[1] # c)

\* The pool with an empty list for category c.
PoolEmptied(pool, c) == DictSet(pool, c, <<>>)

Pools ==
  { QUESTIONS_BY_CATEGORY }
  \cup { PoolWithout(QUESTIONS_BY_CATEGORY, c) : c \in MissedCategories }
  \cup { PoolEmptied(QUESTIONS_BY_CATEGORY, c) : c \in MissedCategories }

\* One invocation with one of the pools, on an open scope of one answer at
\* most.
InitPool ==
  /\ questions_by_category \in Pools
  /\ legacy_type_categories = LEGACY_TYPE_CATEGORIES
  /\ IsOpenScope(project_data)
  /\ Len(project_data.scoping_details) <= 1
  /\ CallInit

SpecPool == InitPool /\ [][Next]_vars

\* Every category the selection derives: defaults, categories the answers
\* name, the closing category, each at its first place.
DerivedSequence == Distinct(DeclaredDefaults \o ThemeDerived \o << Closing >>)

\* The pool of the process holds questions for category c.
InPool(c) == DictGet(questions_by_category, c, <<>>) # <<>>

(* C12. A pool miss is dropped silently: a category of the derived sequence
   with no entry, or an empty list, in QUESTIONS_BY_CATEGORY is absent from
   the returned mapping, nothing is raised, and the other categories keep
   their relative order and their question lists. *)
C12_PoolMissDropped ==
  /\ pc = "assemble" => ENABLED Assemble
  /\ AtReturn =>
       LET kept == SelectSeq(DerivedSequence, InPool)
       IN  Value(result) =
             [ i \in 1..Len(kept) |-> << kept[i], DictGet(questions_by_category, kept[i], <<>>) >> ]

\* A return that dropped a category standing between two it kept.
C12_Witness ==
  /\ AtReturn
  /\ \E i, j, k \in 1..Len(DerivedSequence) :
       /\ i < j /\ j < k
       /\ InPool(DerivedSequence[i]) /\ ~InPool(DerivedSequence[j]) /\ InPool(DerivedSequence[k])
       /\ Pos(Output, DerivedSequence[i]) > 0
       /\ Pos(Output, DerivedSequence[i]) < Pos(Output, DerivedSequence[k])
  /\ Len(Output) < Len(DerivedSequence)

-----------------------------------------------------------------------------
(* C14. Purity: generate_questions never modifies its project_data argument
   nor the tables QUESTIONS_BY_CATEGORY, LEGACY_TYPE_CATEGORIES and
   THEME_TO_CATEGORY (which the code only reads with .get, and the model holds
   as a definition); appending the categories the answers derive does not
   lengthen the default list of the legacy type, so after any sequence of
   calls the tables equal their initial values. *)
C14_Purity ==
  [][ /\ (pc # "returned") => project_data' = project_data
      /\ questions_by_category' = QUESTIONS_BY_CATEGORY
      /\ legacy_type_categories' = LEGACY_TYPE_CATEGORIES ]_vars

\* Two calls have returned, one with a category its answers appended to the
\* defaults, and the tables are what they were.
C14_Witness ==
  /\ pc = "returned"
  /\ Len(returned) >= 2
  /\ \E i \in 1..Len(returned) :
       Len(returned[i].value)
         > Len(DictGet(LEGACY_TYPE_CATEGORIES, returned[i].project_data.legacy_type, <<>>))
  /\ legacy_type_categories = LEGACY_TYPE_CATEGORIES
  /\ questions_by_category = QUESTIONS_BY_CATEGORY

-----------------------------------------------------------------------------
(* Several sessions: each runs generate_questions in a thread of its own on
   the tables of the process (question_bank.py 342-377), the steps of the
   invocations interleaved at will.  `invocations` holds the locals of each. *)

\* Most sessions that run generate_questions side by side.
MaxSessions == 2

Sessions == 1..MaxSessions

\* The scopes of the sessions: two legacy types, one of them with and
\* without a theme.
SessionScopes == CallerScopes \cup { BuildProjectData("Love & Family", <<>>) }

\* generate_questions as a function of project_data and the tables as
\* declared: lines 351, 355-364, 367-368, 371-375 in turn.
RECURSIVE AppendThemes(_, _)
AppendThemes(cats, themes) ==
  IF themes = <<>> THEN cats
  ELSE AppendThemes(AppendTheme(cats, Head(themes)), Tail(themes))

GenerateQuestions(pd) ==
  LET base == DictGet(LEGACY_TYPE_CATEGORIES, pd.legacy_type, <<>>)
      cats == WithClosing(AppendThemes(base, LabelsOf(pd.scoping_details, 1)))
      kept == SelectSeq(cats, LAMBDA c : DictGet(QUESTIONS_BY_CATEGORY, c, <<>>) # <<>>)
  IN  [ i \in 1..Len(kept) |-> << kept[i], DictGet(QUESTIONS_BY_CATEGORY, kept[i], <<>>) >> ]

\* The locals of an invocation about to start on pd.
Locals(pd) ==
  [ project_data |-> pd, pc |-> "start", categories |-> Fresh(<<>>),
    idx |-> 0, theme |-> 0, mapped |-> "", result |-> <<>>, value |-> <<>> ]

\* Assignment through the reference `categories` of session s, which goes
\* on with the locals `next`: the list the reference names changes.
SessionAppend(s, item, next) ==
  LET ref == invocations[s].categories
      new == Append(Items(ref), item)
  IN  /\ invocations' =
           [ invocations EXCEPT ![s] =
               [ next EXCEPT !.categories = IF ref.table = "" THEN Fresh(new) ELSE ref ] ]
      /\ legacy_type_categories' =
           IF ref.table = "LEGACY_TYPE_CATEGORIES"
           THEN DictSet(legacy_type_categories, ref.key, new)
           ELSE legacy_type_categories

SessionFrame ==
  UNCHANGED << questions_by_category, project_data, pc, categories, idx, result,
               lookups, generated_questions, priority_map, returned, edits,
               session_state >>

\* Lines 348-351 in session s.
SessionStart(s) ==
  /\ invocations[s].pc = "start"
  /\ invocations' =
       [ invocations EXCEPT ![s] =
           [ @ EXCEPT !.categories =
                        BaseCategories(invocations[s].project_data.legacy_type),
                      !.idx = 1, !.theme = 1, !.pc = "scan" ] ]
  /\ UNCHANGED legacy_type_categories
  /\ SessionFrame

\* Lines 355-359 and 361-363: the next label of the answer at hand is looked
\* up and tested against categories, or the loop moves to the next answer.
SessionLookup(s) ==
  LET my == invocations[s]
      details == my.project_data.scoping_details
  IN  /\ my.pc = "scan"
      /\ my.idx <= Len(details)
      /\ LET themes == LookedUp(details[my.idx][2])
         IN  invocations' =
               [ invocations EXCEPT ![s] =
                   IF my.theme > Len(themes)
                   THEN [ @ EXCEPT !.idx = @ + 1, !.theme = 1 ]
                   ELSE LET mapped == Mapped(themes[my.theme])
                        IN  IF mapped # "" /\ mapped \notin Range(Items(my.categories))
                            THEN [ @ EXCEPT !.mapped = mapped, !.pc = "append" ]
                            ELSE [ @ EXCEPT !.theme = @ + 1 ] ]
      /\ UNCHANGED legacy_type_categories
      /\ SessionFrame

\* Lines 360 and 364: categories.append(mapped).
SessionAppendMapped(s) ==
  LET my == invocations[s]
  IN  /\ my.pc = "append"
      /\ SessionAppend(s, my.mapped,
                       [ my EXCEPT !.theme = @ + 1, !.mapped = "", !.pc = "scan" ])
      /\ SessionFrame

\* Lines 367-368, once the loop is over; the test and the append are one
\* step here, the list being tested once more by nobody in between
\* (SessionLookup has the two apart).
SessionClosing(s) ==
  LET my == invocations[s]
  IN  /\ my.pc = "scan"
      /\ my.idx > Len(my.project_data.scoping_details)
      /\ IF Closing \notin Range(Items(my.categories))
         THEN SessionAppend(s, Closing, [ my EXCEPT !.pc = "assemble" ])
         ELSE /\ invocations' = [ invocations EXCEPT ![s].pc = "assemble" ]
              /\ UNCHANGED legacy_type_categories
      /\ SessionFrame

\* Lines 371-375.
SessionAssemble(s) ==
  /\ invocations[s].pc = "assemble"
  /\ invocations' =
       [ invocations EXCEPT ![s] =
           [ @ EXCEPT !.result = AssembleResult(Items(invocations[s].categories), <<>>),
                      !.pc = "return" ] ]
  /\ UNCHANGED legacy_type_categories
  /\ SessionFrame

\* Line 377: the session receives the value.
SessionReturn(s) ==
  /\ invocations[s].pc = "return"
  /\ invocations' =
       [ invocations EXCEPT ![s] =
           [ @ EXCEPT !.value = Value(invocations[s].result), !.categories = Fresh(<<>>),
                      !.result = <<>>, !.pc = "returned" ] ]
  /\ UNCHANGED legacy_type_categories
  /\ SessionFrame

\* Every session is about to call generate_questions on a scope of its own.
InitSessions ==
  /\ TablesInit
  /\ invocations \in [ Sessions -> { Locals(pd) : pd \in SessionScopes } ]
  /\ session_state = InitState
  /\ project_data = NoProjectData
  /\ pc = "idle"
  /\ categories = Fresh(<<>>)
  /\ idx = 0
  /\ result = <<>>
  /\ lookups = <<>>
  /\ generated_questions = <<>>
  /\ priority_map = <<>>
  /\ returned = <<>>
  /\ edits = 0

NextSessions ==
  \E s \in Sessions :
    \/ SessionStart(s) \/ SessionLookup(s) \/ SessionAppendMapped(s)
    \/ SessionClosing(s) \/ SessionAssemble(s) \/ SessionReturn(s)

SpecSessions == InitSessions /\ [][NextSessions]_vars

\* What session s holds of its categories list and its result mapping.
Held(s) ==
  << Items(invocations[s].categories), Value(invocations[s].result) >>

(* C15. Concurrent invocation safety: when several sessions execute
   generate_questions with their steps interleaved at will, each invocation
   returns the result it would return if run alone, and no invocation
   observes or alters the categories list or the result mapping of another. *)
C15_ConcurrentInvocations ==
  [][ \A s \in Sessions :
        /\ invocations'[s].pc = "returned"
              => invocations'[s].value = GenerateQuestions(invocations[s].project_data)
        /\ invocations'[s] = invocations[s] => Held(s)' = Held(s) ]_vars

\* Two sessions with the same legacy type and different answers have both
\* returned, one after steps of the other fell between its own.
C15_Witness ==
  \E s, t \in Sessions :
    /\ s # t
    /\ invocations[s].pc = "returned" /\ invocations[t].pc = "returned"
    /\ invocations[s].project_data.legacy_type = invocations[t].project_data.legacy_type
    /\ invocations[s].value # invocations[t].value

-----------------------------------------------------------------------------
(* The tables against each other. *)

\* The multiselect questions of legacy type lt.
MultiselectQuestions(lt) ==
  { q \in Range(FollowUpQuestions(lt)) : q.type = "multiselect" }

\* The lookups of the scan so far whose label is an option of the
\* multiselect question it answers.
OptionLookups ==
  { i \in 1..Len(lookups) :
      LET q == QuestionWithText(project_data.scoping_details[lookups[i].item][1])
      IN  q.type = "multiselect" /\ lookups[i].theme \in Range(q.options) }

(* C17. Vocabulary coverage: for every legacy type of LEGACY_TYPES, every
   option label of every multiselect scoping question is a key of
   THEME_TO_CATEGORY, so no label a user can select in the wizard is ignored
   by generate_questions: the category it names is in the result. *)
C17_VocabularyCoverage ==
  /\ pc = "start" =>
       \A q \in MultiselectQuestions(project_data.legacy_type) :
         \A o \in Range(q.options) : Mapped(o) # ""
  /\ AtReturn =>
       \A i \in OptionLookups :
         /\ Mapped(lookups[i].theme) # ""
         /\ Mapped(lookups[i].theme) \in Range(lookups[i].after)
         /\ Mapped(lookups[i].theme) \in Range(Output)

\* A return after a selected option added a category to the defaults.
C17_Witness ==
  /\ AtReturn
  /\ \E i \in OptionLookups :
       /\ lookups[i].after # lookups[i].before
       /\ Mapped(lookups[i].theme) \notin Range(DeclaredDefaults)
       /\ Mapped(lookups[i].theme) \in Range(Output)

\* The categories the tables name: in a default list, or as the category of
\* a theme.
NamedCategories ==
  UNION { Range(LEGACY_TYPE_CATEGORIES[i][2]) : i \in 1..Len(LEGACY_TYPE_CATEGORIES) }
  \cup { THEME_TO_CATEGORY[i][2] : i \in 1..Len(THEME_TO_CATEGORY) }

(* C20. The reference tables are closed over the catalog: the keys of
   LEGACY_TYPES are the keys of LEGACY_TYPE_CATEGORIES in the same order,
   and every category named in LEGACY_TYPE_CATEGORIES or as a value of
   THEME_TO_CATEGORY has a list that is not empty in QUESTIONS_BY_CATEGORY;
   so for any scope the wizard can produce no default list is empty and no
   derived category is dropped. *)
C20_TablesClosed ==
  /\ pc = "start" =>
       /\ Keys(LEGACY_TYPES) = Keys(LEGACY_TYPE_CATEGORIES)
       /\ \A c \in NamedCategories : DictGet(QUESTIONS_BY_CATEGORY, c, <<>>) # <<>>
  /\ (pc = "scan" /\ idx = 1) =>
       /\ Items(categories) # <<>>
       /\ Items(categories) = DeclaredDefaults
  /\ AtReturn =>
       /\ Output = DerivedSequence
       /\ \A i \in 1..Len(result) : Items(result[i][2]) # <<>>

\* A return with the defaults and a category the answers derived, all kept.
C20_Witness ==
  /\ AtReturn
  /\ \E c \in Range(ThemeDerived) : c \notin Range(DeclaredDefaults) /\ c \in Range(Output)
  /\ Len(Output) = Len(DerivedSequence)
  /\ Len(Output) > Len(DeclaredDefaults)

-----------------------------------------------------------------------------
(* The wizard: the six steps of app.py (254-707), one action per button.
   Each run of the script ends in st.rerun() after a button has changed
   st.session_state. *)

\* The legacy types the user of the model selects at step 1.
WizardArchetypes == { "Words of Wisdom", "Military & Service" }

\* What the user of the model types into a text input of step 2.
WizardTexts == { "", "US Army, 1968-1972" }

\* The value of the step-2 widget of question q when Continue is clicked
\* (lines 288-308): st.radio yields one of the options (the first unless
\* the user picks another), st.multiselect the list of the options picked
\* (here none or one), st.text_input the text typed.
WidgetValues(q) ==
  CASE q.type = "radio" ->
         { Str(q.options[i]) : i \in 1..Min(MaxRadio, Len(q.options)) }
    [] q.type = "multiselect" ->
         { List(<<>>) }
         \cup { List(<< q.options[i] >>) : i \in 1..Min(MaxRadio, Len(q.options)) }
    [] q.type = "text" -> { Str(t) : t \in WizardTexts }

\* answers[q["key"]] = <widget value> for q in follow_up_questions (lines
\* 284-308): the dicts `answers` the widgets of qs can yield from q[i] on.
RECURSIVE Answers(_, _, _)
Answers(qs, i, acc) ==
  IF i > Len(qs) THEN { acc }
  ELSE UNION { Answers(qs, i + 1, DictSet(acc, qs[i].key, v)) : v \in WidgetValues(qs[i]) }

\* A mutant of StoreAnswers: the new answers are merged into the stored ones.
StoreAnswersMerged(stored, answers) ==
  LET RECURSIVE Update(_, _)
      Update(d, i) == IF i > Len(answers) THEN d
                      ELSE Update(DictSet(d, answers[i][1], answers[i][2]), i + 1)
  IN  Update(stored, 1)

\* st.session_state.scoping_answers = answers (line 318)
StoreAnswers(stored, answers) == answers

\* A mutant of ConfirmedQuestions: questions generated before are kept.
ConfirmedQuestionsOnce(held, pd) ==
  IF held # <<>> THEN held
  ELSE LET value == GenerateQuestions(pd)
       IN  [ i \in 1..Len(value) |-> << value[i][1], Fresh(value[i][2]) >> ]

\* st.session_state.generated_questions = generate_questions(project_data)
\* (line 534): the OrderedDict of new lists that generate_questions returns.
ConfirmedQuestions(held, pd) ==
  LET value == GenerateQuestions(pd)
  IN  [ i \in 1..Len(value) |-> << value[i][1], Fresh(value[i][2]) >> ]

\* What a button of the wizard leaves alone.
WizardFrame ==
  UNCHANGED << questions_by_category, legacy_type_categories, categories, idx,
               result, lookups, returned, invocations >>

\* A mutant of Navigate: the step after the one meant.
NavigateFurther(to) ==
  /\ session_state' = [ session_state EXCEPT !.step = to + 1, !.error = "",
                                             !.widgets.state = <<>>,
                                             !.widgets.clicked = <<>>,
                                             !.widgets.touched = NoInput ]
  /\ UNCHANGED << project_data, pc, generated_questions, priority_map, edits >>
  /\ WizardFrame

\* st.session_state.step = to; st.rerun() (lines 314-315, 384-385, 443-444,
\* 523-524, 706-707): the run that follows shows no error, and the widgets
\* of the step left are not part of it, so the session drops their values.
Navigate(to) ==
  /\ session_state' = [ session_state EXCEPT !.step = to, !.error = "",
                                             !.widgets.state = <<>>,
                                             !.widgets.clicked = <<>>,
                                             !.widgets.touched = NoInput ]
  /\ UNCHANGED << project_data, pc, generated_questions, priority_map, edits >>
  /\ WizardFrame

\* A mutant of Selected: the step advances, the legacy type is not stored.
SelectedNothing(state, name) == [ state EXCEPT !.step = 2, !.error = "" ]

\* st.session_state.legacy_type = name; st.session_state.step = 2 (268-269)
Selected(state, name) ==
  [ state EXCEPT !.legacy_type = name, !.step = 2, !.error = "" ]

\* Step 1, a Select button (lines 266-270).
Select ==
  /\ session_state.step = 1
  /\ \E name \in WizardArchetypes :
       session_state' = Selected(session_state, name)
  /\ UNCHANGED << project_data, pc, generated_questions, priority_map, edits >>
  /\ WizardFrame

\* Step 2, Back (lines 313-315).
Step2Back ==
  /\ session_state.step = 2
  /\ Subscript(LEGACY_TYPES, session_state.legacy_type).found
  /\ Navigate(1)

\* Step 2, Continue (lines 278-308, 317-320).
Step2Continue ==
  /\ session_state.step = 2
  /\ LET data == Subscript(LEGACY_TYPES, session_state.legacy_type)
     IN  /\ data.found
         /\ \E answers \in Answers(data.value.follow_up_questions, 1, <<>>) :
              session_state' =
                [ session_state EXCEPT
                    !.scoping_answers = StoreAnswers(@, answers),
                    !.answered_for = session_state.legacy_type,
                    !.step = 3, !.error = "" ]
  /\ UNCHANGED << project_data, pc, generated_questions, priority_map, edits >>
  /\ WizardFrame

\* Step 3, Back (lines 383-385).
Step3Back == session_state.step = 3 /\ Navigate(2)

\* What the user of the model ticks and types at steps 3 and 4.
TickedLabels(options) == { <<>>, << options[1] >> }

SubjectNames == { "", Blank, "Grandpa Joe" }

AUDIENCE_OPTIONS == << "My Children", "My Grandchildren", "Future Generations",
                       "My Spouse / Partner", "Extended Family",
                       "Friends & Community", "Professional Colleagues",
                       "The General Public", "Myself" >>

DELIVERY_FORMATS == << "Written Book / Memoir", "Audio Recording",
                       "Video Documentary", "Digital Archive",
                       "Scrapbook / Photo Essay", "Letters Collection",
                       "Not sure yet" >>

\* A mutant of Step3Error: the subject name is not stripped.
Step3ErrorUnstripped(selected_audiences, subject_name) ==
  IF selected_audiences = <<>> THEN "Please select at least one audience."
  ELSE IF subject_name = "" THEN "Please provide the subject's name."
  ELSE ""

\* The message of st.error when Continue of step 3 is clicked (lines
\* 387-390), "" when the click is accepted.
Step3Error(selected_audiences, subject_name) ==
  IF selected_audiences = <<>> THEN "Please select at least one audience."
  ELSE IF Strip(subject_name) = "" THEN "Please provide the subject's name."
  ELSE ""

\* The message of st.error when Review Summary of step 4 is clicked (lines
\* 446-447), "" when the click is accepted.
Step4Error(selected_formats) ==
  IF selected_formats = <<>> THEN "Please select at least one format." ELSE ""

\* A mutant of Refused: the message is shown and the step advances all the
\* same.
RefusedAndAdvanced(state, message) ==
  [ state EXCEPT !.error = message, !.step = @ + 1 ]

\* A click that is refused (lines 388, 390, 447): st.error shows the message,
\* no key of the session state is assigned, the script does not rerun.
Refused(state, message) == [ state EXCEPT !.error = message ]

\* Step 3, Continue (lines 334-379, 386-398); the radio of the subject
\* relationship stands at its first option, the audience details are empty.
Step3Continue ==
  /\ session_state.step = 3
  /\ \E selected_audiences \in TickedLabels(AUDIENCE_OPTIONS), subject_name \in SubjectNames :
       LET message == Step3Error(selected_audiences, subject_name)
       IN  session_state' =
             IF message # "" THEN Refused(session_state, message)
             ELSE [ session_state EXCEPT
                      !.audiences = selected_audiences,
                      !.audience_detail = "",
                      !.subject_name = subject_name,
                      !.subject_relationship = "This is my own story",
                      !.step = 4, !.error = "" ]
  /\ UNCHANGED << project_data, pc, generated_questions, priority_map, edits >>
  /\ WizardFrame

\* Step 4, Back (lines 442-444).
Step4Back == session_state.step = 4 /\ Navigate(3)

\* Step 4, Review Summary (lines 409-438, 445-454); the radio of the timeline
\* stands at its first option, the notes are empty.
Step4Continue ==
  /\ session_state.step = 4
  /\ \E selected_formats \in TickedLabels(DELIVERY_FORMATS) :
       LET message == Step4Error(selected_formats)
       IN  session_state' =
             IF message # "" THEN Refused(session_state, message)
             ELSE [ session_state EXCEPT
                      !.delivery_formats = selected_formats,
                      !.timeline = "I'd like to start right away",
                      !.additional_notes = "",
                      !.step = 5, !.error = "" ]
  /\ UNCHANGED << project_data, pc, generated_questions, priority_map, edits >>
  /\ WizardFrame

\* Step 5, Edit Answers (lines 464-465, 509, 522-524); the render of the
\* step has looked the legacy type up and built the project data.
EditAnswers ==
  /\ session_state.step = 5
  /\ Subscript(LEGACY_TYPES, session_state.legacy_type).found
  /\ Navigate(1)

\* Step 5, Confirm (lines 526-538).
Confirm ==
  /\ session_state.step = 5
  /\ Subscript(LEGACY_TYPES, session_state.legacy_type).found
  /\ LET pd == BuildProjectData(session_state.legacy_type, session_state.scoping_answers)
     IN  /\ project_data' = pd
         /\ session_state' = [ session_state EXCEPT !.saved_project_data = << pd >>,
                                                    !.questions_generated = TRUE,
                                                    !.step = 6, !.error = "" ]
         /\ generated_questions' = ConfirmedQuestions(generated_questions, pd)
  /\ priority_map' = <<>>
  /\ pc' = "returned"
  /\ UNCHANGED edits
  /\ WizardFrame

\* What the user does to the page of step 6 in the wizard: nothing, or the
\* first question retyped or deleted.
WizardInteractions ==
  { NoInput,
    [ NoInput EXCEPT !.kind = "text", !.cat = 1, !.q = 1, !.text = PaddedQuestion ],
    [ NoInput EXCEPT !.kind = "delete", !.cat = 1, !.q = 1 ] }

\* Step 6, one run on a page not shown before, but for the one thing the
\* user has done to it (lines 558-560, 576-647).
Step6Edit ==
  /\ session_state.step = 6
  /\ edits < MaxEdits
  /\ session_state' =
       [ session_state EXCEPT !.saved_project_data =
           IF @ = <<>>
           THEN << BuildProjectData(session_state.legacy_type, session_state.scoping_answers) >>
           ELSE @ ]
  /\ \E i \in WizardInteractions :
       LET w == Touched(NoWidgets, i, generated_questions)
       IN  Persist(AddCategory(w, EditCategories(w, generated_questions, 1,
                                                 [ questions |-> <<>>, pris |-> <<>> ])))
  /\ edits' = edits + 1
  /\ UNCHANGED << project_data, pc >>
  /\ WizardFrame

\* Step 6, Back to Review (lines 705-707).
Step6Back == session_state.step = 6 /\ Navigate(5)

\* A new session (init_state).
InitWizard ==
  /\ TablesInit
  /\ session_state = InitState
  /\ invocations = <<>>
  /\ project_data = NoProjectData
  /\ pc = "idle"
  /\ categories = Fresh(<<>>)
  /\ idx = 0
  /\ result = <<>>
  /\ lookups = <<>>
  /\ generated_questions = <<>>
  /\ priority_map = <<>>
  /\ returned = <<>>
  /\ edits = 0

NextWizard ==
  \/ Select \/ Step2Back \/ Step2Continue \/ Step3Back \/ Step3Continue
  \/ Step4Back \/ Step4Continue \/ EditAnswers \/ Confirm \/ Step6Edit \/ Step6Back

SpecWizard == InitWizard /\ [][NextWizard]_vars

-----------------------------------------------------------------------------
\* The keys of the follow-up questions of the legacy type selected.
QuestionKeys ==
  { q.key : q \in Range(FollowUpQuestions(session_state.legacy_type)) }

\* The scope the session state holds: what build_project_data makes of it.
SessionScope ==
  BuildProjectData(session_state.legacy_type, session_state.scoping_answers)

(* C18. ProjectScope well-formedness in the wizard: in every reachable state
   with step >= 3 (also after going back to step 1 from step 5 and choosing
   another legacy type) the keys of scoping_answers are the keys of the
   follow-up questions of the legacy type selected, with a list for each
   multiselect question and a string for each radio or text question; no
   answer recorded for a legacy type chosen before is passed to
   generate_questions. *)
C18_ScopeWellFormed ==
  session_state.step >= 3 =>
    /\ Range(Keys(session_state.scoping_answers)) = QuestionKeys
    /\ Len(session_state.scoping_answers) = Cardinality(QuestionKeys)
    /\ \A q \in Range(FollowUpQuestions(session_state.legacy_type)) :
         DictGet(session_state.scoping_answers, q.key, NoneAnswer).type
           = IF q.type = "multiselect" THEN "list" ELSE "str"
    /\ session_state.answered_for = session_state.legacy_type
    /\ session_state.step = 6 => project_data = SessionScope

\* The review step of a session that confirmed one legacy type before, went
\* back and chose another.
C18_Witness ==
  /\ session_state.step = 5
  /\ session_state.saved_project_data # <<>>
  /\ session_state.saved_project_data[1].legacy_type # session_state.legacy_type
  /\ Range(Keys(session_state.scoping_answers)) = QuestionKeys

(* C19. Fresh computation on finalize: step 6 is entered only through
   Confirm at step 5, and that transition stores saved_project_data, replaces
   generated_questions by generate_questions of that data and empties
   priority_map; so in every reachable state with step = 6 the legacy type
   and scoping details of saved_project_data are those of the selections of
   the session, and questions or edits of an earlier confirmation do not
   survive a new Confirm. *)
C19_FreshOnConfirm ==
  [][ /\ session_state'.step = 6 =>
           /\ session_state.step \in { 5, 6 }
           /\ session_state'.saved_project_data = << SessionScope' >>
      /\ (session_state.step # 6 /\ session_state'.step = 6) =>
           /\ session_state'.saved_project_data = << SessionScope >>
           /\ Value(generated_questions)' = GenerateQuestions(SessionScope)
           /\ priority_map' = <<>> ]_vars

\* Step 6 right after a Confirm that followed a render of step 6: the
\* questions are the generated ones, no priority is held.
C19_Witness ==
  /\ session_state.step = 6
  /\ edits >= 1
  /\ priority_map = <<>>
  /\ Value(generated_questions) = GenerateQuestions(SessionScope)

-----------------------------------------------------------------------------
(* C21. Linear wizard: the step starts at 1, stays within 1..6, and every
   transition that changes it changes it by +1 (Select, Continue, Review
   Summary, Confirm), by -1 (Back) or from 5 to 1 (Edit Answers); no step
   is skipped going forward. *)
C21_LinearWizard ==
  /\ session_state.step = 1
  /\ [][ /\ session_state.step \in 1..6
         /\ session_state'.step \in 1..6
         /\ session_state'.step # session_state.step =>
              \/ session_state'.step = session_state.step + 1
              \/ session_state'.step = session_state.step - 1
              \/ session_state.step = 5 /\ session_state'.step = 1 ]_vars

\* Step 1 again after Edit Answers, in a session that had reached step 6.
C21_Witness ==
  /\ session_state.step = 1
  /\ session_state.questions_generated
  /\ session_state.delivery_formats # <<>>

(* C24. In every reachable state with step >= 2 the legacy type stored is a
   key of LEGACY_TYPES, never None, so the lookups LEGACY_TYPES[lt] of steps
   2 and 5 and of build_project_data find their key. *)
C24_LegacyTypeKnown ==
  session_state.step >= 2 =>
    /\ session_state.legacy_type # None
    /\ HasKey(LEGACY_TYPES, session_state.legacy_type)
    /\ Subscript(LEGACY_TYPES, session_state.legacy_type).found

\* Step 2 of a session that confirmed one legacy type, went back through
\* Edit Answers and selected another.
C24_Witness ==
  /\ session_state.step = 2
  /\ session_state.saved_project_data # <<>>
  /\ session_state.saved_project_data[1].legacy_type # session_state.legacy_type
  /\ session_state.answered_for # session_state.legacy_type

(* C25. Validated fields stay valid: at every step >= 4 the stored audiences
   are not empty and the stored subject name is not blank; at every step >= 5
   the stored delivery formats are not empty; also after going back and
   forward again. *)
C25_ValidatedFields ==
  /\ session_state.step >= 4 =>
       /\ session_state.audiences # <<>>
       /\ Strip(session_state.subject_name) # ""
  /\ session_state.step >= 5 => session_state.delivery_formats # <<>>

\* Step 4 reached again, going back from the review of step 5.
C25_Witness ==
  /\ session_state.step = 4
  /\ session_state.delivery_formats # <<>>
  /\ session_state.audiences # <<>>

(* C26. A refused Continue changes nothing: when Continue of step 3 is
   clicked with no audience or a blank subject name, or Review Summary of
   step 4 with no format, the step and every stored field of the session
   (audiences, audience_detail, subject_name, subject_relationship,
   delivery_formats, timeline, additional_notes and the others) are what
   they were; only the error message is shown. *)
C26_RefusedChangesNothing ==
  [][ session_state'.error # "" =>
        /\ [ session_state' EXCEPT !.error = "" ] = [ session_state EXCEPT !.error = "" ]
        /\ UNCHANGED << generated_questions, priority_map, project_data >>
        /\ session_state'.error \in { Step3Error(<<>>, "Grandpa Joe"),
                                      Step3Error(<< "Myself" >>, "") }
             => session_state.step = 3
        /\ session_state'.error = Step4Error(<<>>) => session_state.step = 4 ]_vars

\* The name was refused at step 3 of a session that holds the audiences and
\* formats of an earlier pass.
C26_Witness ==
  /\ session_state.step = 3
  /\ session_state.error = Step3Error(<< "Myself" >>, Blank)
  /\ session_state.delivery_formats # <<>>
-----------------------------------------------------------------------------
(* C22. build_project_data gives scoping_details exactly one entry for each
   follow-up question of the legacy type selected, in the order the
   questions are declared, holding the answer stored under the question's
   key or "" when none is stored; the question texts of one legacy type are
   pairwise distinct, so no answer overwrites another; generate_questions
   then looks the labels up in declaration order. *)
C22_ScopingInDeclarationOrder ==
  /\ \A lt \in Archetypes :
       LET qs == FollowUpQuestions(lt)
       IN  \A i, j \in 1..Len(qs) : qs[i].question = qs[j].question => i = j
  /\ (session_state.step = 5 /\ Invoked) =>
       LET qs == FollowUpQuestions(session_state.legacy_type)
           details == project_data.scoping_details
       IN  /\ Len(details) = Len(qs)
           /\ \A i \in 1..Len(qs) :
                /\ details[i][1] = qs[i].question
                /\ details[i][2] = DictGet(session_state.scoping_answers, qs[i].key, Str(""))
           /\ \A k \in 1..Len(lookups) :
                /\ lookups[k].item \in 1..Len(qs)
                /\ k > 1 => lookups[k - 1].item <= lookups[k].item
           /\ AtReturn => [ k \in 1..Len(lookups) |-> lookups[k].theme ] = ScanOrder

\* A session that holds the answers of the first two of three questions,
\* stored second before first, after the questions were generated.
C22_Witness ==
  /\ AtReturn
  /\ session_state.step = 5
  /\ Len(session_state.scoping_answers) = 2
  /\ Len(project_data.scoping_details) = 3
  /\ project_data.scoping_details[3][2] = Str("")
  /\ project_data.scoping_details[1][2] = session_state.scoping_answers[2][2]
  /\ \E k \in 1..Len(lookups) : lookups[k].item = 2
-----------------------------------------------------------------------------
(* C30. Single-choice answers never expand the categories: no option of a
   "radio" question of LEGACY_TYPES is a key of THEME_TO_CATEGORY, so the
   lookup of a single-choice answer of the catalog leaves the category list
   as it is and the output of generate_questions is what it is without the
   single-choice answers. *)
C30_RadioAnswersInert ==
  /\ pc = "start" =>
       \A lt \in Archetypes : \A q \in Range(FollowUpQuestions(lt)) :
         q.type = "radio" =>
           \A o \in Range(q.options) : ~HasKey(THEME_TO_CATEGORY, o) /\ Mapped(o) = ""
  /\ AtReturn =>
       /\ \A k \in 1..Len(lookups) :
            FollowUpQuestions(project_data.legacy_type)[lookups[k].item].type = "radio"
              => lookups[k].after = lookups[k].before
       /\ LET qs == FollowUpQuestions(project_data.legacy_type)
              without == [ project_data EXCEPT !.scoping_details =
                             [ i \in 1..Len(@) |->
                                 IF qs[i].type = "radio" THEN << @[i][1], Str("") >>
                                 ELSE @[i] ] ]
          IN  Value(result) = GenerateQuestions(without)

\* A call returned for a scope that holds the first option of a
\* single-choice question and a label that named a further category.
C30_Witness ==
  /\ AtReturn
  /\ \E k \in 1..Len(lookups) :
       /\ FollowUpQuestions(project_data.legacy_type)[lookups[k].item].type = "radio"
       /\ lookups[k].theme # ""
  /\ \E k \in 1..Len(lookups) : lookups[k].after # lookups[k].before
-----------------------------------------------------------------------------
(* Step 6 over several runs of the script: the page stays, the values of
   its widgets are held by the session under keys built from the category
   index and the question index (app.py 584-605), and every run reads them
   again. *)

\* How many times the user touches the page of step 6.
MaxTouches == 2

\* What the user does to the page between two runs: nothing (a rerun), the
\* first question retyped or blanked, its box ticked or unticked, its
\* priority raised, a question added to the first category, a category
\* added under a new name or under the name of an existing one.
Touches ==
  { NoInput,
    [ NoInput EXCEPT !.kind = "text", !.cat = 1, !.q = 1, !.text = PaddedQuestion ],
    [ NoInput EXCEPT !.kind = "text", !.cat = 1, !.q = 1, !.text = Blank ],
    [ NoInput EXCEPT !.kind = "delete", !.cat = 1, !.q = 1 ],
    [ NoInput EXCEPT !.kind = "priority", !.cat = 1, !.q = 1, !.pri = PriOptions[1] ],
    [ NoInput EXCEPT !.kind = "add", !.cat = 1, !.text = PaddedQuestion ],
    [ NoInput EXCEPT !.kind = "add_category", !.name = "Hobbies & Pastimes",
                     !.text = PaddedQuestion ],
    [ NoInput EXCEPT !.kind = "add_category", !.name = Closing, !.text = PaddedQuestion ] }

\* Step 6, one run of the script (lines 558-560, 576-647): the first after
\* Confirm, a rerun with nothing touched, or the run a touch of the page
\* starts. The user touches widgets the page shows.
Step6Run ==
  /\ session_state.step = 6
  /\ \E i \in Touches :
       /\ i # NoInput =>
            /\ edits < MaxTouches
            /\ << "new_cat_name", 0, 0 >> \in DOMAIN session_state.widgets.state
            /\ i.cat # 0 => << "add", i.cat, 0 >> \in DOMAIN session_state.widgets.state
            /\ i.q # 0 => << "del", i.cat, i.q >> \in DOMAIN session_state.widgets.state
       /\ LET w == Touched(session_state.widgets, i, generated_questions)
          IN  /\ Persist(AddCategory(w, EditCategories(w, generated_questions, 1,
                                                       [ questions |-> <<>>, pris |-> <<>> ])))
              /\ session_state' =
                   [ session_state EXCEPT
                       !.saved_project_data =
                         IF @ = <<>>
                         THEN << BuildProjectData(session_state.legacy_type,
                                                  session_state.scoping_answers) >>
                         ELSE @,
                       !.error = "",
                       !.widgets = Shown(w, generated_questions) ]
       /\ edits' = edits + (IF i = NoInput THEN 0 ELSE 1)
  /\ UNCHANGED << project_data, pc >>
  /\ WizardFrame

\* The review of step 5 in a session that chose Words of Wisdom and went
\* through steps 2 to 4 on the widgets as they are first shown, but for an
\* audience, a name and a format; the build identifies widgets either way.
InitStep6 ==
  /\ TablesInit
  /\ \E keyed \in BOOLEAN :
       LET lt == "Words of Wisdom"
           qs == FollowUpQuestions(lt)
       IN  session_state =
             [ InitState EXCEPT
                 !.step = 5,
                 !.legacy_type = lt,
                 !.answered_for = lt,
                 !.scoping_answers =
                   [ n \in 1..Len(qs) |->
                       << qs[n].key,
                          IF qs[n].type = "multiselect" THEN List(<<>>)
                          ELSE IF qs[n].type = "radio" THEN Str(qs[n].options[1])
                          ELSE Str("") >> ],
                 !.audiences = << AUDIENCE_OPTIONS[1] >>,
                 !.subject_name = "Grandpa Joe",
                 !.subject_relationship = "This is my own story",
                 !.delivery_formats = << DELIVERY_FORMATS[1] >>,
                 !.timeline = "I'd like to start right away",
                 !.widgets.keyed = keyed ]
  /\ invocations = <<>>
  /\ project_data = NoProjectData
  /\ pc = "idle"
  /\ categories = Fresh(<<>>)
  /\ idx = 0
  /\ result = <<>>
  /\ lookups = <<>>
  /\ generated_questions = <<>>
  /\ priority_map = <<>>
  /\ returned = <<>>
  /\ edits = 0

NextStep6 == Confirm \/ Step6Run \/ Step6Back

SpecStep6 == InitStep6 /\ [][NextStep6]_vars
-----------------------------------------------------------------------------
\* The question texts the session holds, of all categories.
HeldTexts == UNION { Range(Items(generated_questions[c][2])) : c \in 1..Len(generated_questions) }

(* C23. Priority overlay consistency: after a run of step 6 that stored its
   result the keys of priority_map are exactly the question texts of
   generated_questions and every value is one of "Must Ask", "Nice to Have",
   "Optional", so every question of the interview guide carries one
   priority label; picking a priority changes neither categories nor
   questions. *)
C23_PriorityOverlay ==
  [][ /\ (session_state'.step = 6 /\ session_state'.widgets.state # <<>>) =>
           /\ Range(Keys(priority_map')) = HeldTexts'
           /\ \A n \in 1..Len(priority_map') : priority_map'[n][2] \in Range(PriOptions)
      /\ (/\ session_state.step = 6
          /\ edits = 0 /\ edits' = 1
          /\ session_state'.widgets.touched.kind = "priority") =>
           Value(generated_questions)' = Value(generated_questions) ]_vars

(* C27. The question set never becomes empty: at step 6 questions_generated
   is true, generated_questions holds at least one category, every category
   at least one question, and no question is blank, whatever is edited,
   deleted or added; a run that deletes or blanks every question stores
   nothing. *)
C27_NeverEmpty ==
  session_state.step = 6 =>
    /\ session_state.questions_generated
    /\ generated_questions # <<>>
    /\ \A c \in 1..Len(generated_questions) : Items(generated_questions[c][2]) # <<>>
    /\ \A q \in HeldTexts : Strip(q) # ""

\* One question is left, its box is ticked or its text blanked: the run that
\* deleted the last but one has been followed by one that stored nothing.
C27_Witness ==
  /\ session_state.step = 6
  /\ edits >= 1
  /\ Len(generated_questions) = 1
  /\ Len(Items(generated_questions[1][2])) = 1
  /\ \/ Widget(session_state.widgets, << "del", 1, 1 >>, FALSE)
     \/ Strip(Widget(session_state.widgets, << "edit", 1, 1 >>,
                     Items(generated_questions[1][2])[1])) = ""
  /\ ~ENABLED (Step6Run /\ generated_questions' # generated_questions)

(* C28. Add Category only adds: clicking Add Category with a name and a
   question that are not blank leaves every category/question pair held
   before still held afterwards, also when the name is that of an existing
   category (stated for the first thing the user does on the page). *)
C28_AddCategoryOnlyAdds ==
  [][ (/\ session_state.step = 6
       /\ edits = 0 /\ edits' = 1
       /\ session_state'.widgets.touched.kind = "add_category"
       /\ Strip(session_state'.widgets.touched.name) # ""
       /\ Strip(session_state'.widgets.touched.text) # "") =>
        LET before == Value(generated_questions)
            after == Value(generated_questions)'
        IN  \A c \in 1..Len(before) : \E d \in 1..Len(after) :
              /\ after[d][1] = before[c][1]
              /\ Range(before[c][2]) \subseteq Range(after[d][2]) ]_vars

(* C29. A run of step 6 is idempotent: once a delete or a text edit of the
   user has been applied and stored, running the script again with nothing
   touched leaves generated_questions and priority_map as they are; one
   delete removes the one question it was applied to and no other. *)
C29_RenderIdempotent ==
  [][ /\ (/\ session_state.step = 6 /\ session_state'.step = 6
          /\ edits' = edits
          /\ session_state.widgets.touched.kind \in { "delete", "text" }) =>
        /\ generated_questions' = generated_questions
        /\ priority_map' = priority_map
      /\ (/\ session_state.step = 6
          /\ edits = 0 /\ edits' = 1
          /\ session_state'.widgets.touched.kind = "delete") =>
           LET at == session_state'.widgets.touched
               before == Value(generated_questions)
               after == Value(generated_questions)'
           IN  /\ Len(after) = Len(before)
               /\ \A c \in 1..Len(before) :
                    after[c] = IF c = at.cat
                               THEN << before[c][1],
                                       SubSeq(before[c][2], 1, at.q - 1)
                                         \o SubSeq(before[c][2], at.q + 1, Len(before[c][2])) >>
                               ELSE before[c] ]_vars
=============================================================================
